---- MODULE Spec2Model ----
(***************************************************************************)
(* Central limit order book of src/src/order_book.rs: the price ladder     *)
(* (Level, OrderBook), the matching kernel execute_market_txn, and the     *)
(* library operations add_bid, add_ask, cancel, execute_market_buy/sell    *)
(* and execute_limit_buy/sell_order.                                       *)
(*                                                                         *)
(* Price, Volume, Balance and OrderId are u64 newtypes.  The word is       *)
(* scaled to WordBits bits: U64_MAX = 2^WordBits - 1 stands for u64::MAX,  *)
(* and the only arithmetic that can leave the word within the bounds is    *)
(* the product price * volume of the market-buy dry run.                   *)
(***************************************************************************)
EXTENDS Integers, Sequences, FiniteSets, TLC

\* ---------------------------------------------------------------- bounds
MaxPrice == 3
MaxVol == 2
MaxOrders == 3
WordBits == 6
MaxCallers == 2
MaxRequests == 3

\* ------------------------------------------------------- program constants
U64_MAX == 2^WordBits - 1
U64_MIN == 0
TOMBSTONE_GC_LIMIT == 1000

\* A price in the upper half of the word: twice it no longer fits.
HighPrice == 2^(WordBits - 1)

\* Inputs of the callers.  0 and U64_MAX are reserved sentinels for prices
\* and U64_MAX for order ids, so callers never pass them.
InputPrices == (1..MaxPrice) \cup {HighPrice}
QuoteVols == 1..MaxVol
TargetVols == 0..(MaxVol + 1)
Balances == {MaxPrice, MaxPrice * MaxVol, U64_MAX}

Min(a, b) == IF a < b THEN a ELSE b

\* u64 multiplication: the mathematical product leaves the word ...
mul_overflows(a, b) == a * b > U64_MAX
\* ... and a build without overflow checks keeps the low bits.
wrapping_mul(a, b) == (a * b) % (U64_MAX + 1)

\* ------------------------------------------------------------------ Quote
Quote(order_id, volume) == [order_id |-> order_id, volume |-> volume]
tombstone == [order_id |-> U64_MAX, volume |-> U64_MAX]
is_tombstone(q) == q.order_id = U64_MAX

\* ------------------------------------------------------------------ Level
\* iter_quotes without the tombstone filter
iter_quotes_unfiltered(level) == level.quotes

iter_quotes(level) == SelectSeq(level.quotes, LAMBDA q : ~is_tombstone(q))

\* compact that also turns the order of the live quotes round
compact_reversed(level) ==
    LET live == SelectSeq(level.quotes, LAMBDA q : ~is_tombstone(q))
    IN [level EXCEPT !.quotes = [k \in 1..Len(live) |-> live[Len(live) + 1 - k]],
                     !.tombstone_count = 0]

compact(level) ==
    [level EXCEPT !.quotes = SelectSeq(@, LAMBDA q : ~is_tombstone(q)),
                  !.tombstone_count = 0]

\* maybe_compact with the test tombstone_count > TOMBSTONE_GC_LIMIT
maybe_compact_strict(level) ==
    IF level.tombstone_count > TOMBSTONE_GC_LIMIT THEN compact(level) ELSE level

maybe_compact(level) ==
    IF level.tombstone_count >= TOMBSTONE_GC_LIMIT THEN compact(level) ELSE level

clear(level) == [total_volume |-> 0, quotes |-> <<>>, tombstone_count |-> 0]

Match(maker_order_id, taker_order_id, price, volume, typ) ==
    [maker_order_id |-> maker_order_id, taker_order_id |-> taker_order_id,
     price |-> price, volume |-> volume, typ |-> typ]

\* -------------------------------------------------------------- OrderBook
new == [best_ask |-> U64_MAX, best_bid |-> U64_MIN, levels |-> [p \in {} |-> 0]]

RECURSIVE Ascending(_)
Ascending(S) ==
    IF S = {} THEN <<>>
    ELSE LET m == CHOOSE x \in S : \A y \in S : x <= y
         IN <<m>> \o Ascending(S \ {m})

RECURSIVE Descending(_)
Descending(S) ==
    IF S = {} THEN <<>>
    ELSE LET m == CHOOSE x \in S : \A y \in S : x >= y
         IN <<m>> \o Descending(S \ {m})

\* bid_levels without the .rev()
bid_levels_forward(b) == Ascending({p \in DOMAIN b.levels : p <= b.best_bid})

\* ask_levels over levels.range(..), the whole ladder
ask_levels_whole_ladder(b) == Ascending(DOMAIN b.levels)

\* levels.range(best_ask..): the keys at or above best_ask, ascending
ask_levels(b) == Ascending({p \in DOMAIN b.levels : p >= b.best_ask})
\* levels.range(..=best_bid).rev(): the keys at or below best_bid, descending
bid_levels(b) == Descending({p \in DOMAIN b.levels : p <= b.best_bid})

RECURSIVE SumVolumes(_)
SumVolumes(qs) == IF qs = <<>> THEN 0 ELSE Head(qs).volume + SumVolumes(Tail(qs))

RECURSIVE SumTotals(_, _)
SumTotals(levels, plist) ==
    IF plist = <<>> THEN 0
    ELSE levels[Head(plist)].total_volume + SumTotals(levels, Tail(plist))

ask_volume(b) == SumTotals(b.levels, ask_levels(b))

\* insert_quote assigning the quote's volume to total_volume instead of adding it
insert_quote_assign_total(levels, price, quote) ==
    LET level == IF price \in DOMAIN levels
                 THEN [levels[price] EXCEPT !.total_volume = quote.volume,
                                            !.quotes = Append(@, quote)]
                 ELSE [total_volume |-> quote.volume, quotes |-> <<quote>>,
                       tombstone_count |-> 0]
    IN [p \in DOMAIN levels \cup {price} |-> IF p = price THEN level ELSE levels[p]]

\* insert_quote putting the quote at the head of the queue
insert_quote_front(levels, price, quote) ==
    LET level == IF price \in DOMAIN levels
                 THEN [levels[price] EXCEPT !.total_volume = @ + quote.volume,
                                            !.quotes = <<quote>> \o @]
                 ELSE [total_volume |-> quote.volume, quotes |-> <<quote>>,
                       tombstone_count |-> 0]
    IN [p \in DOMAIN levels \cup {price} |-> IF p = price THEN level ELSE levels[p]]

\* The level written by add_bid/add_ask at `price`.
insert_quote(levels, price, quote) ==
    LET level == IF price \in DOMAIN levels
                 THEN [levels[price] EXCEPT !.total_volume = @ + quote.volume,
                                            !.quotes = Append(@, quote)]
                 ELSE [total_volume |-> quote.volume, quotes |-> <<quote>>,
                       tombstone_count |-> 0]
    IN [p \in DOMAIN levels \cup {price} |-> IF p = price THEN level ELSE levels[p]]

\* add_bid with the spread test best_ask < price
add_bid_strict(b, price, quote) ==
    IF b.best_ask < price
    THEN [book |-> b, outcome |-> "CrossedSpread"]
    ELSE LET did_update == price \in DOMAIN b.levels /\ b.levels[price].total_volume # 0
             b1 == [b EXCEPT !.levels = insert_quote(b.levels, price, quote)]
         IN IF b.best_bid < price
            THEN [book |-> [b1 EXCEPT !.best_bid = price], outcome |-> "PlacedNewBest"]
            ELSE [book |-> b1,
                  outcome |-> IF did_update THEN "PlacedExisting" ELSE "PlacedNew"]

\* add_bid with the best test best_bid <= price
add_bid_best_on_tie(b, price, quote) ==
    IF b.best_ask <= price
    THEN [book |-> b, outcome |-> "CrossedSpread"]
    ELSE LET did_update == price \in DOMAIN b.levels /\ b.levels[price].total_volume # 0
             b1 == [b EXCEPT !.levels = insert_quote(b.levels, price, quote)]
         IN IF b.best_bid <= price
            THEN [book |-> [b1 EXCEPT !.best_bid = price], outcome |-> "PlacedNewBest"]
            ELSE [book |-> b1,
                  outcome |-> IF did_update THEN "PlacedExisting" ELSE "PlacedNew"]

add_bid(b, price, quote) ==
    IF b.best_ask <= price
    THEN [book |-> b, outcome |-> "CrossedSpread"]
    ELSE LET did_update == price \in DOMAIN b.levels /\ b.levels[price].total_volume # 0
             b1 == [b EXCEPT !.levels = insert_quote(b.levels, price, quote)]
         IN IF b.best_bid < price
            THEN [book |-> [b1 EXCEPT !.best_bid = price], outcome |-> "PlacedNewBest"]
            ELSE [book |-> b1,
                  outcome |-> IF did_update THEN "PlacedExisting" ELSE "PlacedNew"]

\* add_ask with the spread test best_bid > price
add_ask_strict(b, price, quote) ==
    IF b.best_bid > price
    THEN [book |-> b, outcome |-> "CrossedSpread"]
    ELSE LET did_update == price \in DOMAIN b.levels /\ b.levels[price].total_volume # 0
             b1 == [b EXCEPT !.levels = insert_quote(b.levels, price, quote)]
         IN IF b.best_ask > price
            THEN [book |-> [b1 EXCEPT !.best_ask = price], outcome |-> "PlacedNewBest"]
            ELSE [book |-> b1,
                  outcome |-> IF did_update THEN "PlacedExisting" ELSE "PlacedNew"]

add_ask(b, price, quote) ==
    IF b.best_bid >= price
    THEN [book |-> b, outcome |-> "CrossedSpread"]
    ELSE LET did_update == price \in DOMAIN b.levels /\ b.levels[price].total_volume # 0
             b1 == [b EXCEPT !.levels = insert_quote(b.levels, price, quote)]
         IN IF b.best_ask > price
            THEN [book |-> [b1 EXCEPT !.best_ask = price], outcome |-> "PlacedNewBest"]
            ELSE [book |-> b1,
                  outcome |-> IF did_update THEN "PlacedExisting" ELSE "PlacedNew"]

\* cancel that leaves total_volume alone
cancel_keep_total(b, price, order_id) ==
    IF price \notin DOMAIN b.levels
    THEN [book |-> b, outcome |-> "NotFound"]
    ELSE LET level == b.levels[price]
             hits == {i \in 1..Len(level.quotes) : level.quotes[i].order_id = order_id}
         IN IF hits = {}
            THEN [book |-> b, outcome |-> "NotFound"]
            ELSE LET i == CHOOSE x \in hits : \A y \in hits : x <= y
                     l1 == [level EXCEPT !.quotes[i] = tombstone,
                                         !.tombstone_count = @ + 1]
                 IN [book |-> [b EXCEPT !.levels[price] = maybe_compact(l1)],
                     outcome |-> "WasCancelled"]

\* cancel that resets a best price whose level it has emptied
cancel_reset_best(b, price, order_id) ==
    IF price \notin DOMAIN b.levels
    THEN [book |-> b, outcome |-> "NotFound"]
    ELSE LET level == b.levels[price]
             hits == {i \in 1..Len(level.quotes) : level.quotes[i].order_id = order_id}
         IN IF hits = {}
            THEN [book |-> b, outcome |-> "NotFound"]
            ELSE LET i == CHOOSE x \in hits : \A y \in hits : x <= y
                     l1 == [level EXCEPT !.total_volume = @ - level.quotes[i].volume,
                                         !.quotes[i] = tombstone,
                                         !.tombstone_count = @ + 1]
                     emptied == l1.total_volume = 0
                 IN [book |-> [b EXCEPT !.levels[price] = maybe_compact(l1),
                                        !.best_bid = IF emptied /\ price = @
                                                     THEN U64_MIN ELSE @,
                                        !.best_ask = IF emptied /\ price = @
                                                     THEN U64_MAX ELSE @],
                     outcome |-> "WasCancelled"]

\* cancel that counts a tombstone without writing it over the quote
cancel_leave_quote(b, price, order_id) ==
    IF price \notin DOMAIN b.levels
    THEN [book |-> b, outcome |-> "NotFound"]
    ELSE LET level == b.levels[price]
             hits == {i \in 1..Len(level.quotes) : level.quotes[i].order_id = order_id}
         IN IF hits = {}
            THEN [book |-> b, outcome |-> "NotFound"]
            ELSE LET i == CHOOSE x \in hits : \A y \in hits : x <= y
                     l1 == [level EXCEPT !.total_volume = @ - level.quotes[i].volume,
                                         !.tombstone_count = @ + 1]
                 IN [book |-> [b EXCEPT !.levels[price] = maybe_compact(l1)],
                     outcome |-> "WasCancelled"]

\* cancel that tombstones the quote and still answers NotFound
cancel_reports_not_found(b, price, order_id) ==
    IF price \notin DOMAIN b.levels
    THEN [book |-> b, outcome |-> "NotFound"]
    ELSE LET level == b.levels[price]
             hits == {i \in 1..Len(level.quotes) : level.quotes[i].order_id = order_id}
         IN IF hits = {}
            THEN [book |-> b, outcome |-> "NotFound"]
            ELSE LET i == CHOOSE x \in hits : \A y \in hits : x <= y
                     l1 == [level EXCEPT !.total_volume = @ - level.quotes[i].volume,
                                         !.quotes[i] = tombstone,
                                         !.tombstone_count = @ + 1]
                 IN [book |-> [b EXCEPT !.levels[price] = maybe_compact(l1)],
                     outcome |-> "NotFound"]

\* cancel compares order ids over every physical entry of the level.
cancel(b, price, order_id) ==
    IF price \notin DOMAIN b.levels
    THEN [book |-> b, outcome |-> "NotFound"]
    ELSE LET level == b.levels[price]
             hits == {i \in 1..Len(level.quotes) : level.quotes[i].order_id = order_id}
         IN IF hits = {}
            THEN [book |-> b, outcome |-> "NotFound"]
            ELSE LET i == CHOOSE x \in hits : \A y \in hits : x <= y
                     l1 == [level EXCEPT !.total_volume = @ - level.quotes[i].volume,
                                         !.quotes[i] = tombstone,
                                         !.tombstone_count = @ + 1]
                 IN [book |-> [b EXCEPT !.levels[price] = maybe_compact(l1)],
                     outcome |-> "WasCancelled"]

\* ---------------------------------------------------------- matching kernel
Filled(new_best_price) == [tag |-> "Filled", new_best_price |-> new_best_price]
PartiallyFilled(volume_transacted, new_best_price) ==
    [tag |-> "PartiallyFilled", volume_transacted |-> volume_transacted,
     new_best_price |-> new_best_price]
MarketVolumeExhausted(volume_transacted) ==
    [tag |-> "MarketVolumeExhausted", volume_transacted |-> volume_transacted]
FailedInsufficientFunds == [tag |-> "FailedInsufficientFunds"]
\* a call that did not return: an arithmetic overflow check or assert_placed fired
Panicked == [tag |-> "Panicked"]

\* a limit buy whose bound is compared the way a limit sell's is
LimitBuy_sell_bound(price) == [kind |-> "LimitSell", price |-> price]

LimitBuy(price) == [kind |-> "LimitBuy", price |-> price]
LimitSell(price) == [kind |-> "LimitSell", price |-> price]
MarketBuy(available_quote_balance) ==
    [kind |-> "MarketBuy", available_quote_balance |-> available_quote_balance]
MarketSell == [kind |-> "MarketSell"]

\* exhaust_level walking quotes instead of iter_quotes
exhaust_level_unfiltered(level, order_id, price, remaining_after) ==
    [k \in 1..Len(level.quotes) |->
        Match(level.quotes[k].order_id, order_id, price, level.quotes[k].volume,
              IF remaining_after = 0 THEN "BothFilled" ELSE "MakerFilled")]

\* The level-exhausting branch: one match per live quote, all with the tag
\* decided by the taker's remaining volume after the whole level.
exhaust_level(level, order_id, price, remaining_after) ==
    LET live == iter_quotes(level)
    IN [k \in 1..Len(live) |->
          Match(live[k].order_id, order_id, price, live[k].volume,
                IF remaining_after = 0 THEN "BothFilled" ELSE "MakerFilled")]

\* iter_quotes_mut: the position of the first live entry at or after i,
\* Len(quotes) + 1 when there is none
next_live(quotes, i) ==
    LET rest == {k \in i..Len(quotes) : ~is_tombstone(quotes[k])}
    IN IF rest = {} THEN Len(quotes) + 1
       ELSE CHOOSE k \in rest : \A r \in rest : k <= r

\* The level-terminating branch: the walk over iter_quotes_mut from entry i.
RECURSIVE terminate_level(_, _, _, _, _, _, _)
terminate_level(quotes, i, remaining_txn_vol, order_id, price, matches, tombstone_inc) ==
    LET j == next_live(quotes, i) IN
    IF j > Len(quotes)
    THEN [quotes |-> quotes, matches |-> matches, tombstone_inc |-> tombstone_inc]
    ELSE LET q == quotes[j] IN
         IF remaining_txn_vol < q.volume
         THEN [quotes |-> [quotes EXCEPT ![j].volume = @ - remaining_txn_vol],
               matches |-> Append(matches, Match(q.order_id, order_id, price,
                                                 remaining_txn_vol, "TakerFilled")),
               tombstone_inc |-> tombstone_inc]
         ELSE IF remaining_txn_vol = q.volume
         THEN [quotes |-> [quotes EXCEPT ![j] = tombstone],
               matches |-> Append(matches, Match(q.order_id, order_id, price,
                                                 remaining_txn_vol, "BothFilled")),
               tombstone_inc |-> tombstone_inc]
         ELSE terminate_level([quotes EXCEPT ![j] = tombstone], j + 1,
                              remaining_txn_vol - q.volume, order_id, price,
                              Append(matches, Match(q.order_id, order_id, price,
                                                    q.volume, "MakerFilled")),
                              tombstone_inc + 1)

\* The for loop of execute_market_txn from the i-th level of price_levels.
RECURSIVE txn_loop(_, _, _, _, _, _, _, _)
txn_loop(levels, price_levels, i, order_id, target_vol, target_price, remaining_txn_vol, matches) ==
    IF i > Len(price_levels)
    THEN [levels |-> levels, matches |-> matches,
          res |-> MarketVolumeExhausted(target_vol - remaining_txn_vol)]
    ELSE LET price == price_levels[i]
             level == levels[price]
         IN
         IF target_price.kind = "LimitBuy" /\ target_price.price < price
         THEN [levels |-> levels, matches |-> matches,
               res |-> PartiallyFilled(target_vol - remaining_txn_vol, price)]
         ELSE IF target_price.kind = "LimitSell" /\ target_price.price > price
         THEN [levels |-> levels, matches |-> matches,
               res |-> PartiallyFilled(target_vol - remaining_txn_vol, price)]
         ELSE IF remaining_txn_vol = 0
         THEN [levels |-> levels, matches |-> matches, res |-> Filled(price)]
         ELSE IF remaining_txn_vol >= level.total_volume
         THEN LET rem == remaining_txn_vol - level.total_volume
              IN txn_loop([levels EXCEPT ![price] = clear(level)], price_levels, i + 1,
                          order_id, target_vol, target_price, rem,
                          matches \o exhaust_level(level, order_id, price, rem))
         ELSE LET t == terminate_level(level.quotes, 1, remaining_txn_vol, order_id,
                                       price, <<>>, 0)
                  l1 == [total_volume |-> level.total_volume - remaining_txn_vol,
                         quotes |-> t.quotes,
                         tombstone_count |-> level.tombstone_count + t.tombstone_inc]
              IN [levels |-> [levels EXCEPT ![price] = maybe_compact(l1)],
                  matches |-> matches \o t.matches,
                  res |-> Filled(price)]

\* execute_market_txn that answers a zero target before it looks at the levels
execute_market_txn_zero_first(levels, price_levels, order_id, target_vol, target_price, matches) ==
    IF target_vol = 0
    THEN [levels |-> levels, matches |-> matches, res |-> MarketVolumeExhausted(0)]
    ELSE txn_loop(levels, price_levels, 1, order_id, target_vol, target_price,
                  target_vol, matches)

execute_market_txn(levels, price_levels, order_id, target_vol, target_price, matches) ==
    txn_loop(levels, price_levels, 1, order_id, target_vol, target_price,
             target_vol, matches)

\* ------------------------------------------------------ market-buy dry run
\* "Ok" when the loop ends or breaks, "Failed" when it returns
\* FailedInsufficientFunds, "Panic" when the product overflows in a build
\* with overflow checks.
RECURSIVE validate_funds(_, _, _, _, _, _)
validate_funds(levels, price_levels, i, rem_bal, rem_vol, checks) ==
    IF i > Len(price_levels) THEN "Ok"
    ELSE LET price == price_levels[i]
             total_volume == levels[price].total_volume
             vol == Min(rem_vol, total_volume)
         IN IF checks /\ mul_overflows(price, vol) THEN "Panic"
            ELSE IF wrapping_mul(price, vol) > rem_bal THEN "Failed"
            ELSE IF rem_vol < total_volume THEN "Ok"
            ELSE validate_funds(levels, price_levels, i + 1,
                                rem_bal - wrapping_mul(price, total_volume),
                                rem_vol - total_volume, checks)

\* execute_market_buy that runs the kernel before it looks at the gate
execute_market_buy_gate_late(b, order_id, target_vol, available_quote_balance, fills, checks) ==
    LET gate == validate_funds(b.levels, ask_levels(b), 1, available_quote_balance,
                               target_vol, checks)
        r == execute_market_txn(b.levels, ask_levels(b), order_id, target_vol,
                                MarketBuy(available_quote_balance), fills)
        b1 == [b EXCEPT !.levels = r.levels,
                        !.best_ask = IF r.res.tag = "Filled"
                                     THEN r.res.new_best_price ELSE U64_MAX]
    IN IF gate = "Panic" THEN [book |-> b, res |-> Panicked, fills |-> fills]
       ELSE IF gate = "Failed"
       THEN [book |-> b1, res |-> FailedInsufficientFunds, fills |-> r.matches]
       ELSE [book |-> b1, res |-> r.res, fills |-> r.matches]

\* execute_market_buy that resets best_ask whatever the outcome
execute_market_buy_reset_best(b, order_id, target_vol, available_quote_balance, fills, checks) ==
    LET gate == validate_funds(b.levels, ask_levels(b), 1, available_quote_balance,
                               target_vol, checks)
        r == execute_market_txn(b.levels, ask_levels(b), order_id, target_vol,
                                MarketBuy(available_quote_balance), fills)
    IN IF gate = "Panic" THEN [book |-> b, res |-> Panicked, fills |-> fills]
       ELSE IF gate = "Failed"
       THEN [book |-> b, res |-> FailedInsufficientFunds, fills |-> fills]
       ELSE [book |-> [b EXCEPT !.levels = r.levels, !.best_ask = U64_MAX],
             res |-> r.res, fills |-> r.matches]

\* ---------------------------------------------------- market / limit orders
\* Each returns the book, the outcome and the fills buffer after the call.
execute_market_buy(b, order_id, target_vol, available_quote_balance, fills, checks) ==
    LET gate == validate_funds(b.levels, ask_levels(b), 1, available_quote_balance,
                               target_vol, checks)
        r == execute_market_txn(b.levels, ask_levels(b), order_id, target_vol,
                                MarketBuy(available_quote_balance), fills)
    IN IF gate = "Panic" THEN [book |-> b, res |-> Panicked, fills |-> fills]
       ELSE IF gate = "Failed"
       THEN [book |-> b, res |-> FailedInsufficientFunds, fills |-> fills]
       ELSE [book |-> [b EXCEPT !.levels = r.levels,
                                !.best_ask = IF r.res.tag = "Filled"
                                             THEN r.res.new_best_price ELSE U64_MAX],
             res |-> r.res, fills |-> r.matches]

\* execute_market_sell that leaves best_bid alone when the bids run out
execute_market_sell_keep_best(b, order_id, target_vol, fills) ==
    LET r == execute_market_txn(b.levels, bid_levels(b), order_id, target_vol,
                                MarketSell, fills)
    IN [book |-> [b EXCEPT !.levels = r.levels,
                           !.best_bid = IF r.res.tag = "Filled"
                                        THEN r.res.new_best_price ELSE b.best_bid],
        res |-> r.res, fills |-> r.matches]

execute_market_sell(b, order_id, target_vol, fills) ==
    LET r == execute_market_txn(b.levels, bid_levels(b), order_id, target_vol,
                                MarketSell, fills)
    IN [book |-> [b EXCEPT !.levels = r.levels,
                           !.best_bid = IF r.res.tag = "Filled"
                                        THEN r.res.new_best_price ELSE U64_MIN],
        res |-> r.res, fills |-> r.matches]

\* The residual insertion .assert_placed(): a CrossedSpread panics.
execute_limit_buy_order(b, order_id, target_price, target_vol, fills) ==
    LET r == execute_market_txn(b.levels, ask_levels(b), order_id, target_vol,
                                LimitBuy(target_price), fills)
        b1 == [b EXCEPT !.levels = r.levels,
                        !.best_ask = IF r.res.tag = "MarketVolumeExhausted"
                                     THEN U64_MAX ELSE r.res.new_best_price]
    IN IF r.res.tag = "Filled"
       THEN [book |-> b1, res |-> r.res, fills |-> r.matches, placed |-> "None"]
       ELSE LET a == add_bid(b1, target_price,
                             Quote(order_id, target_vol - r.res.volume_transacted))
            IN [book |-> a.book,
                res |-> IF a.outcome = "CrossedSpread" THEN Panicked ELSE r.res,
                fills |-> r.matches, placed |-> a.outcome]

\* execute_limit_sell_order that rests the whole target volume
execute_limit_sell_order_whole_target(b, order_id, target_price, target_vol, fills) ==
    LET r == execute_market_txn(b.levels, bid_levels(b), order_id, target_vol,
                                LimitSell(target_price), fills)
        b1 == [b EXCEPT !.levels = r.levels,
                        !.best_bid = IF r.res.tag = "MarketVolumeExhausted"
                                     THEN U64_MIN ELSE r.res.new_best_price]
    IN IF r.res.tag = "Filled"
       THEN [book |-> b1, res |-> r.res, fills |-> r.matches, placed |-> "None"]
       ELSE LET a == add_ask(b1, target_price, Quote(order_id, target_vol))
            IN [book |-> a.book,
                res |-> IF a.outcome = "CrossedSpread" THEN Panicked ELSE r.res,
                fills |-> r.matches, placed |-> a.outcome]

execute_limit_sell_order(b, order_id, target_price, target_vol, fills) ==
    LET r == execute_market_txn(b.levels, bid_levels(b), order_id, target_vol,
                                LimitSell(target_price), fills)
        b1 == [b EXCEPT !.levels = r.levels,
                        !.best_bid = IF r.res.tag = "MarketVolumeExhausted"
                                     THEN U64_MIN ELSE r.res.new_best_price]
    IN IF r.res.tag = "Filled"
       THEN [book |-> b1, res |-> r.res, fills |-> r.matches, placed |-> "None"]
       ELSE LET a == add_ask(b1, target_price,
                             Quote(order_id, target_vol - r.res.volume_transacted))
            IN [book |-> a.book,
                res |-> IF a.outcome = "CrossedSpread" THEN Panicked ELSE r.res,
                fills |-> r.matches, placed |-> a.outcome]

\* ------------------------------------------------------------ order ledger
\* History kept beside the book, for the order ids the ledger was opened
\* for: the side an order's quote was inserted on, the volume it was inserted
\* with, the matches that named it as maker, and the volume its cancellation
\* removed.
NoEntry ==
    [side |-> "none", inserted |-> 0, matched |-> 0, nmatch |-> 0,
     removed |-> 0, closed |-> FALSE, late |-> FALSE]

\* the matches ms, in the order they were pushed, entered for their makers
RECURSIVE Matched(_, _)
Matched(l, ms) ==
    IF ms = <<>> THEN l
    ELSE LET m == Head(ms)
             x == m.maker_order_id
         IN IF x \notin DOMAIN l THEN Matched(l, Tail(ms))
            ELSE Matched([l EXCEPT ![x] =
                            [@ EXCEPT !.matched = @ + m.volume,
                                      !.nmatch = @ + 1,
                                      !.late = @ \/ l[x].closed,
                                      !.closed = @ \/ m.typ \in {"MakerFilled", "BothFilled"}]],
                         Tail(ms))

\* a quote of order id went into a level on the given side
Inserted(l, id, side, volume) ==
    IF id \notin DOMAIN l THEN l
    ELSE [l EXCEPT ![id] = [@ EXCEPT !.side = side, !.inserted = volume]]

\* add_bid / add_ask returned outcome
AfterAdd(l, id, side, volume, outcome) ==
    IF outcome = "CrossedSpread" THEN l ELSE Inserted(l, id, side, volume)

\* cancel(price, order_id) on book b returned outcome: the volume of the
\* quote it wrote the tombstone over
AfterCancel(l, b, price, order_id, outcome) ==
    IF outcome # "WasCancelled" \/ order_id \notin DOMAIN l THEN l
    ELSE LET qs == b.levels[price].quotes
             hits == {i \in 1..Len(qs) : qs[i].order_id = order_id}
             i == CHOOSE x \in hits : \A y \in hits : x <= y
         IN [l EXCEPT ![order_id].removed = @ + qs[i].volume]

\* a limit order pushed the matches ms and returned res: unless it was Filled
\* or assert_placed panicked, its residual went into the book
AfterLimit(l, id, side, target_vol, res, ms) ==
    IF res.tag \in {"Filled", "Panicked"} THEN Matched(l, ms)
    ELSE Inserted(Matched(l, ms), id, side, target_vol - res.volume_transacted)

\* ------------------------------------------------------------ state machine
VARIABLES
    book,             \* the OrderBook
    fills,            \* the matches the last call appended to its buffer
    last,             \* the last call: operation, arguments, returned value
    pre,              \* the book as it was when the last call started
    next_id,          \* the next unused order id (ids are unique)
    overflow_checks,  \* the build: TRUE panics on u64 overflow, FALSE wraps
    cancelled,        \* the <<price, order_id>> for which cancel returned WasCancelled
    order_rx,         \* the inbound channel: the orders sent and not yet received
    match_tx,         \* the match channel: every Match sent, in order
    snapshot_tx,      \* the snapshot channel: every book sent, in order
    pc,               \* the event loop: "recv", "send" or "dead" (its thread panicked)
    sent,             \* how many entries of matches_buffer the for loop has sent
    processed,        \* the orders the event loop has received, in order
    ledger,           \* what has happened to each order id's quote
    market            \* the server's MarketState and the threads that call it

\* the event loop's channels and position
chans == <<order_rx, match_tx, snapshot_tx, pc, sent, processed>>

vars == <<book, fills, last, pre, next_id, overflow_checks, cancelled, chans, ledger, market>>

\* start_market_in_thread: the MarketState of a market whose loop has just
\* been spawned.  snapshot_rx counts the books taken from the snapshot
\* channel, so its next recv() yields snapshot_tx[snapshot_rx + 1];
\* latest_seq is the place in the channel of the book latest_snapshot holds.
\* Each caller is a thread of the server: own is the place in order_rx's
\* history of the last order it sent.
start_market_in_thread ==
    [latest_snapshot |-> new,
     latest_seq |-> 0,
     snapshot_rx |-> 0,
     callers |-> [c \in 1..MaxCallers |->
                    [pc |-> "idle", snapshot |-> new, seq |-> 0, own |-> 0]]]

Call(op, order_id, price, volume, balance, res) ==
    [op |-> op, order_id |-> order_id, price |-> price, volume |-> volume,
     balance |-> balance, res |-> res]

Init ==
    /\ book = new
    /\ fills = <<>>
    /\ last = Call("new", 0, 0, 0, 0, [tag |-> "None"])
    /\ pre = new
    /\ next_id = 1
    /\ overflow_checks \in BOOLEAN
    /\ cancelled = {}
    /\ order_rx = <<>>
    /\ match_tx = <<>>
    /\ snapshot_tx = <<>>
    /\ pc = "recv"
    /\ sent = 0
    /\ processed = <<>>
    /\ market = start_market_in_thread
    /\ ledger = <<>>

\* a panic ends the program; every order takes a fresh id
Running == last.res.tag # "Panicked"
FreshId == Running /\ next_id <= MaxOrders

AddBid ==
    /\ FreshId
    /\ \E price \in InputPrices, volume \in QuoteVols :
         LET r == add_bid(book, price, Quote(next_id, volume))
         IN /\ book' = r.book
            /\ last' = Call("add_bid", next_id, price, volume, 0, [tag |-> r.outcome])
    /\ fills' = <<>>
    /\ pre' = book
    /\ next_id' = next_id + 1
    /\ ledger' = AfterAdd(ledger, last'.order_id, "bid", last'.volume, last'.res.tag)
    /\ UNCHANGED <<market, overflow_checks, cancelled, chans>>

AddAsk ==
    /\ FreshId
    /\ \E price \in InputPrices, volume \in QuoteVols :
         LET r == add_ask(book, price, Quote(next_id, volume))
         IN /\ book' = r.book
            /\ last' = Call("add_ask", next_id, price, volume, 0, [tag |-> r.outcome])
    /\ fills' = <<>>
    /\ pre' = book
    /\ next_id' = next_id + 1
    /\ ledger' = AfterAdd(ledger, last'.order_id, "ask", last'.volume, last'.res.tag)
    /\ UNCHANGED <<market, overflow_checks, cancelled, chans>>

Cancel ==
    /\ Running
    /\ \E price \in InputPrices, order_id \in 1..(next_id - 1) :
         LET r == cancel(book, price, order_id)
         IN /\ book' = r.book
            /\ last' = Call("cancel", order_id, price, 0, 0, [tag |-> r.outcome])
            /\ cancelled' = IF r.outcome = "WasCancelled"
                            THEN cancelled \cup {<<price, order_id>>} ELSE cancelled
    /\ fills' = <<>>
    /\ pre' = book
    /\ ledger' = AfterCancel(ledger, book, last'.price, last'.order_id, last'.res.tag)
    /\ UNCHANGED <<market, next_id, overflow_checks, chans>>

ExecuteMarketBuy ==
    /\ FreshId
    /\ \E target_vol \in TargetVols, available_quote_balance \in Balances :
         LET r == execute_market_buy(book, next_id, target_vol,
                                     available_quote_balance, <<>>, overflow_checks)
         IN /\ book' = r.book
            /\ fills' = r.fills
            /\ last' = Call("execute_market_buy", next_id, U64_MAX, target_vol,
                            available_quote_balance, r.res)
    /\ pre' = book
    /\ next_id' = next_id + 1
    /\ ledger' = Matched(ledger, fills')
    /\ UNCHANGED <<market, overflow_checks, cancelled, chans>>

ExecuteMarketSell ==
    /\ FreshId
    /\ \E target_vol \in TargetVols :
         LET r == execute_market_sell(book, next_id, target_vol, <<>>)
         IN /\ book' = r.book
            /\ fills' = r.fills
            /\ last' = Call("execute_market_sell", next_id, U64_MIN, target_vol, 0, r.res)
    /\ pre' = book
    /\ next_id' = next_id + 1
    /\ ledger' = Matched(ledger, fills')
    /\ UNCHANGED <<market, overflow_checks, cancelled, chans>>

ExecuteLimitBuy ==
    /\ FreshId
    /\ \E target_price \in InputPrices, target_vol \in QuoteVols :
         LET r == execute_limit_buy_order(book, next_id, target_price, target_vol, <<>>)
         IN /\ book' = r.book
            /\ fills' = r.fills
            /\ last' = Call("execute_limit_buy_order", next_id, target_price,
                            target_vol, 0, r.res)
    /\ pre' = book
    /\ next_id' = next_id + 1
    /\ ledger' = AfterLimit(ledger, last'.order_id, "bid", last'.volume, last'.res, fills')
    /\ UNCHANGED <<market, overflow_checks, cancelled, chans>>

ExecuteLimitSell ==
    /\ FreshId
    /\ \E target_price \in InputPrices, target_vol \in QuoteVols :
         LET r == execute_limit_sell_order(book, next_id, target_price, target_vol, <<>>)
         IN /\ book' = r.book
            /\ fills' = r.fills
            /\ last' = Call("execute_limit_sell_order", next_id, target_price,
                            target_vol, 0, r.res)
    /\ pre' = book
    /\ next_id' = next_id + 1
    /\ ledger' = AfterLimit(ledger, last'.order_id, "ask", last'.volume, last'.res, fills')
    /\ UNCHANGED <<market, overflow_checks, cancelled, chans>>

Next ==
    \/ AddBid
    \/ AddAsk
    \/ Cancel
    \/ ExecuteMarketBuy
    \/ ExecuteMarketSell
    \/ ExecuteLimitBuy
    \/ ExecuteLimitSell

Spec == Init /\ [][Next]_vars

\* The same program when a limit order may also name a reserved price:
\* Price(0) and Price(u64::MAX) are ordinary values of the Price type.
ReservedPrices == {U64_MIN, U64_MAX}

ExecuteLimitBuyReserved ==
    /\ FreshId
    /\ \E target_price \in ReservedPrices, target_vol \in QuoteVols :
         LET r == execute_limit_buy_order(book, next_id, target_price, target_vol, <<>>)
         IN /\ book' = r.book
            /\ fills' = r.fills
            /\ last' = Call("execute_limit_buy_order", next_id, target_price,
                            target_vol, 0, r.res)
    /\ pre' = book
    /\ next_id' = next_id + 1
    /\ ledger' = AfterLimit(ledger, last'.order_id, "bid", last'.volume, last'.res, fills')
    /\ UNCHANGED <<market, overflow_checks, cancelled, chans>>

ExecuteLimitSellReserved ==
    /\ FreshId
    /\ \E target_price \in ReservedPrices, target_vol \in QuoteVols :
         LET r == execute_limit_sell_order(book, next_id, target_price, target_vol, <<>>)
         IN /\ book' = r.book
            /\ fills' = r.fills
            /\ last' = Call("execute_limit_sell_order", next_id, target_price,
                            target_vol, 0, r.res)
    /\ pre' = book
    /\ next_id' = next_id + 1
    /\ ledger' = AfterLimit(ledger, last'.order_id, "ask", last'.volume, last'.res, fills')
    /\ UNCHANGED <<market, overflow_checks, cancelled, chans>>

\* the calls that rest quotes and match limit orders
NextReserved ==
    \/ AddBid
    \/ AddAsk
    \/ ExecuteLimitBuy
    \/ ExecuteLimitSell
    \/ ExecuteLimitBuyReserved
    \/ ExecuteLimitSellReserved

SpecReserved == Init /\ [][NextReserved]_vars

\* The same program with the ledger opened for every order id.  It starts
\* from the new book, or from a queue that has seen a cancellation and a
\* partial fill: add_bid(2, q(0, 1)); add_bid(2, q(1, 2)); cancel(2, 0); a
\* market sell of 1, which took half of order 1; add_bid(2, q(2, 2)).
worn_queue == <<tombstone, Quote(1, 1)>>

InitLedger ==
    /\ \/ /\ book = new
          /\ pre = new
          /\ last = Call("new", 0, 0, 0, 0, [tag |-> "None"])
          /\ next_id = 1
          /\ cancelled = {}
          /\ market = start_market_in_thread
          /\ ledger = [x \in 1..MaxOrders |-> NoEntry]
       \/ /\ pre = [best_ask |-> U64_MAX, best_bid |-> 2,
                    levels |-> [p \in {2} |->
                                  [total_volume |-> 1, quotes |-> worn_queue,
                                   tombstone_count |-> 1]]]
          /\ book = add_bid(pre, 2, Quote(2, 2)).book
          /\ last = Call("add_bid", 2, 2, 2, 0, [tag |-> "PlacedExisting"])
          /\ next_id = 3
          /\ cancelled = {<<2, 0>>}
          /\ market = start_market_in_thread
          /\ ledger = [x \in 1..MaxOrders |->
                         IF x = 1 THEN [NoEntry EXCEPT !.side = "bid", !.inserted = 2,
                                                       !.matched = 1, !.nmatch = 1]
                         ELSE IF x = 2 THEN [NoEntry EXCEPT !.side = "bid", !.inserted = 2]
                         ELSE NoEntry]
    /\ fills = <<>>
    /\ overflow_checks \in BOOLEAN
    /\ order_rx = <<>>
    /\ match_tx = <<>>
    /\ snapshot_tx = <<>>
    /\ pc = "recv"
    /\ sent = 0
    /\ processed = <<>>

SpecLedger == InitLedger /\ [][Next]_vars

\* The same program started from a book one tombstone short of a
\* compaction: the book test_compactify builds, an ask level at one price
\* whose quotes were all added and cancelled in turn.
worn_level(n) ==
    [total_volume |-> 0, quotes |-> [k \in 1..n |-> tombstone], tombstone_count |-> n]

InitCompact ==
    /\ book = [best_ask |-> 1, best_bid |-> U64_MIN,
               levels |-> [p \in {1} |-> worn_level(TOMBSTONE_GC_LIMIT - 1)]]
    /\ pre = book
    /\ fills = <<>>
    /\ last = Call("new", 0, 0, 0, 0, [tag |-> "None"])
    /\ next_id = 1
    /\ overflow_checks \in BOOLEAN
    /\ cancelled = {}
    /\ order_rx = <<>>
    /\ match_tx = <<>>
    /\ snapshot_tx = <<>>
    /\ pc = "recv"
    /\ sent = 0
    /\ processed = <<>>
    /\ market = start_market_in_thread
    /\ ledger = <<>>

\* the calls that write tombstones at an ask level
NextCompact ==
    \/ AddAsk
    \/ Cancel
    \/ ExecuteMarketBuy

SpecCompact == InitCompact /\ [][NextCompact]_vars

\* ------------------------------------------------------------- event loop
\* run_orderbook_event_loop: `book` is its book and `fills` its matches_buffer.
Order(id, typ) == [id |-> id, typ |-> typ]
OrderType_MarketBuy(target_base_qty, available_quote_balance) ==
    [kind |-> "MarketBuy", target_base_qty |-> target_base_qty,
     available_quote_balance |-> available_quote_balance]
OrderType_MarketBuyQ(target_quote_balance) ==
    [kind |-> "MarketBuyQ", target_quote_balance |-> target_quote_balance]
OrderType_MarketSell(base_qty) == [kind |-> "MarketSell", base_qty |-> base_qty]
OrderType_MarketSellQ(target_quote_balance, available_base_qty) ==
    [kind |-> "MarketSellQ", target_quote_balance |-> target_quote_balance,
     available_base_qty |-> available_base_qty]
OrderType_LimitBuy(price, volume) ==
    [kind |-> "LimitBuy", price |-> price, volume |-> volume]
OrderType_LimitSell(price, volume) ==
    [kind |-> "LimitSell", price |-> price, volume |-> volume]
OrderType_Cancel(price, order_id) ==
    [kind |-> "Cancel", price |-> price, order_id |-> order_id]
OrderType_SendSnapshot == [kind |-> "SendSnapshot"]

\* the orders a client may send
OrderTypes ==
    {OrderType_MarketBuy(v, b) : v \in TargetVols, b \in Balances}
      \cup {OrderType_MarketBuyQ(b) : b \in {U64_MAX}}
      \cup {OrderType_MarketSell(v) : v \in TargetVols}
      \cup {OrderType_MarketSellQ(b, v) : b \in {U64_MAX}, v \in {MaxVol}}
      \cup {OrderType_LimitBuy(p, v) : p \in InputPrices, v \in QuoteVols}
      \cup {OrderType_LimitSell(p, v) : p \in InputPrices, v \in QuoteVols}
      \cup {OrderType_Cancel(p, i) : p \in InputPrices, i \in 1..MaxOrders}
      \cup {OrderType_SendSnapshot}

InitLoop ==
    /\ book = new
    /\ fills = <<>>
    /\ last = Call("new", 0, 0, 0, 0, [tag |-> "None"])
    /\ pre = new
    /\ next_id = 1
    /\ overflow_checks \in BOOLEAN
    /\ cancelled = {}
    /\ order_rx = <<>>
    /\ match_tx = <<>>
    /\ snapshot_tx = <<>>
    /\ pc = "recv"
    /\ sent = 0
    /\ processed = <<>>
    /\ market = start_market_in_thread
    /\ ledger = <<>>

\* a client sends an order; every order sent carries a fresh id
SendOrder ==
    /\ next_id <= MaxOrders
    /\ \E typ \in OrderTypes : order_rx' = Append(order_rx, Order(next_id, typ))
    /\ next_id' = next_id + 1
    /\ UNCHANGED <<market, book, fills, last, pre, overflow_checks, cancelled,
                   match_tx, snapshot_tx, pc, sent, processed,
                   ledger>>

\* order_rx.recv() hands the loop the order at the head of the channel
Receives(kinds) ==
    /\ pc = "recv"
    /\ order_rx # <<>>
    /\ Head(order_rx).typ.kind \in kinds
    /\ order_rx' = Tail(order_rx)
    /\ processed' = Append(processed, Head(order_rx))
    /\ pre' = book

\* after the match arms: the for loop over matches_buffer, or the end of
\* the thread when the call panicked
Dispatched(res) == pc' = IF res.tag = "Panicked" THEN "dead" ELSE "send"

RecvMarketBuy ==
    /\ Receives({"MarketBuy"})
    /\ LET order == Head(order_rx)
           r == execute_market_buy(book, order.id, order.typ.target_base_qty,
                                   order.typ.available_quote_balance, fills,
                                   overflow_checks)
       IN /\ book' = r.book
          /\ fills' = r.fills
          /\ last' = Call("execute_market_buy", order.id, U64_MAX,
                          order.typ.target_base_qty,
                          order.typ.available_quote_balance, r.res)
          /\ Dispatched(r.res)
    /\ ledger' = Matched(ledger, SubSeq(fills', Len(fills) + 1, Len(fills')))
    /\ UNCHANGED <<market, next_id, overflow_checks, cancelled, match_tx, snapshot_tx, sent>>

RecvMarketSell ==
    /\ Receives({"MarketSell"})
    /\ LET order == Head(order_rx)
           r == execute_market_sell(book, order.id, order.typ.base_qty, fills)
       IN /\ book' = r.book
          /\ fills' = r.fills
          /\ last' = Call("execute_market_sell", order.id, U64_MIN,
                          order.typ.base_qty, 0, r.res)
          /\ Dispatched(r.res)
    /\ ledger' = Matched(ledger, SubSeq(fills', Len(fills) + 1, Len(fills')))
    /\ UNCHANGED <<market, next_id, overflow_checks, cancelled, match_tx, snapshot_tx, sent>>

\* MarketBuyQ and MarketSellQ are todo!()
RecvTodo ==
    /\ Receives({"MarketBuyQ", "MarketSellQ"})
    /\ last' = Call("todo", Head(order_rx).id, 0, 0, 0, Panicked)
    /\ pc' = "dead"
    /\ UNCHANGED <<market, book, fills, next_id, overflow_checks, cancelled, match_tx,
                   snapshot_tx, sent,
                   ledger>>

RecvLimitBuy ==
    /\ Receives({"LimitBuy"})
    /\ LET order == Head(order_rx)
           r == execute_limit_buy_order(book, order.id, order.typ.price,
                                        order.typ.volume, fills)
       IN /\ book' = r.book
          /\ fills' = r.fills
          /\ last' = Call("execute_limit_buy_order", order.id, order.typ.price,
                          order.typ.volume, 0, r.res)
          /\ Dispatched(r.res)
    /\ ledger' = AfterLimit(ledger, last'.order_id, "bid", last'.volume, last'.res,
                         SubSeq(fills', Len(fills) + 1, Len(fills')))
    /\ UNCHANGED <<market, next_id, overflow_checks, cancelled, match_tx, snapshot_tx, sent>>

RecvLimitSell ==
    /\ Receives({"LimitSell"})
    /\ LET order == Head(order_rx)
           r == execute_limit_sell_order(book, order.id, order.typ.price,
                                         order.typ.volume, fills)
       IN /\ book' = r.book
          /\ fills' = r.fills
          /\ last' = Call("execute_limit_sell_order", order.id, order.typ.price,
                          order.typ.volume, 0, r.res)
          /\ Dispatched(r.res)
    /\ ledger' = AfterLimit(ledger, last'.order_id, "ask", last'.volume, last'.res,
                         SubSeq(fills', Len(fills) + 1, Len(fills')))
    /\ UNCHANGED <<market, next_id, overflow_checks, cancelled, match_tx, snapshot_tx, sent>>

\* Cancel: WasCancelled continues with the next recv, NotFound is todo!()
RecvCancel ==
    /\ Receives({"Cancel"})
    /\ LET order == Head(order_rx)
           r == cancel(book, order.typ.price, order.typ.order_id)
       IN /\ book' = r.book
          /\ last' = Call("cancel", order.typ.order_id, order.typ.price, 0, 0,
                          [tag |-> r.outcome])
          /\ cancelled' = IF r.outcome = "WasCancelled"
                          THEN cancelled \cup {<<order.typ.price, order.typ.order_id>>}
                          ELSE cancelled
          /\ pc' = IF r.outcome = "WasCancelled" THEN "recv" ELSE "dead"
    /\ ledger' = AfterCancel(ledger, book, last'.price, last'.order_id, last'.res.tag)
    /\ UNCHANGED <<market, fills, next_id, overflow_checks, match_tx, snapshot_tx, sent>>

\* SendSnapshot that hands over the book itself and starts a new one
RecvSendSnapshot_take ==
    /\ Receives({"SendSnapshot"})
    /\ snapshot_tx' = Append(snapshot_tx, book)
    /\ book' = new
    /\ last' = Call("send_snapshot", Head(order_rx).id, 0, 0, 0, [tag |-> "None"])
    /\ pc' = "send"
    /\ UNCHANGED <<market, fills, next_id, overflow_checks, cancelled, match_tx, sent,
                   ledger>>

\* SendSnapshot that sends the book as it was before the last call
RecvSendSnapshot_stale ==
    /\ Receives({"SendSnapshot"})
    /\ snapshot_tx' = Append(snapshot_tx, pre)
    /\ last' = Call("send_snapshot", Head(order_rx).id, 0, 0, 0, [tag |-> "None"])
    /\ pc' = "send"
    /\ UNCHANGED <<market, book, fills, next_id, overflow_checks, cancelled, match_tx, sent,
                   ledger>>

\* SendSnapshot: snapshot_tx.send(book.clone())
RecvSendSnapshot ==
    /\ Receives({"SendSnapshot"})
    /\ snapshot_tx' = Append(snapshot_tx, book)
    /\ last' = Call("send_snapshot", Head(order_rx).id, 0, 0, 0, [tag |-> "None"])
    /\ pc' = "send"
    /\ UNCHANGED <<market, book, fills, next_id, overflow_checks, cancelled, match_tx, sent,
                   ledger>>

\* one turn of `for &fill in matches_buffer.iter()`
SendFill ==
    /\ pc = "send"
    /\ sent < Len(fills)
    /\ match_tx' = Append(match_tx, fills[sent + 1])
    /\ sent' = sent + 1
    /\ UNCHANGED <<market, book, fills, last, pre, next_id, overflow_checks, cancelled,
                   order_rx, snapshot_tx, pc, processed,
                   ledger>>

\* the end of the for loop without matches_buffer.clear()
ClearBuffer_keep ==
    /\ pc = "send"
    /\ sent = Len(fills)
    /\ sent' = 0
    /\ pc' = "recv"
    /\ UNCHANGED <<market, book, fills, last, pre, next_id, overflow_checks, cancelled,
                   order_rx, match_tx, snapshot_tx, processed,
                   ledger>>

\* matches_buffer.clear(), and round the loop
ClearBuffer ==
    /\ pc = "send"
    /\ sent = Len(fills)
    /\ fills' = <<>>
    /\ sent' = 0
    /\ pc' = "recv"
    /\ UNCHANGED <<market, book, last, pre, next_id, overflow_checks, cancelled,
                   order_rx, match_tx, snapshot_tx, processed,
                   ledger>>

NextLoop ==
    \/ SendOrder
    \/ RecvMarketBuy
    \/ RecvMarketSell
    \/ RecvTodo
    \/ RecvLimitBuy
    \/ RecvLimitSell
    \/ RecvCancel
    \/ RecvSendSnapshot
    \/ SendFill
    \/ ClearBuffer

SpecLoop == InitLoop /\ [][NextLoop]_vars

\* The event loop fed only the commands MarketBuy, MarketSell, LimitBuy,
\* LimitSell, Cancel and SendSnapshot, with its thread scheduled fairly.  The
\* channels keep everything sent, so a send never waits for its consumer.
Commands == {typ \in OrderTypes : typ.kind \notin {"MarketBuyQ", "MarketSellQ"}}

SendCommand ==
    /\ next_id <= MaxOrders
    /\ \E typ \in Commands : order_rx' = Append(order_rx, Order(next_id, typ))
    /\ next_id' = next_id + 1
    /\ UNCHANGED <<market, book, fills, last, pre, overflow_checks, cancelled,
                   match_tx, snapshot_tx, pc, sent, processed, ledger>>

\* the steps of the thread that runs the loop
LoopStep ==
    \/ RecvMarketBuy
    \/ RecvMarketSell
    \/ RecvLimitBuy
    \/ RecvLimitSell
    \/ RecvCancel
    \/ RecvSendSnapshot
    \/ SendFill
    \/ ClearBuffer

NextCommands ==
    \/ SendCommand
    \/ RecvMarketBuy
    \/ RecvMarketSell
    \/ RecvLimitBuy
    \/ RecvLimitSell
    \/ RecvCancel
    \/ RecvSendSnapshot
    \/ SendFill
    \/ ClearBuffer

SpecLoopFair == InitLoop /\ [][NextCommands]_vars /\ WF_vars(LoopStep)

\* ----------------------------------------------------------------- server
\* src/src/server.rs: the threads that serve requests call place_order and
\* update_snapshot on the MarketState of one market while the thread spawned
\* by start_market_in_thread runs the event loop.
placed_order_id == 123
snapshot_request_id == 48879

\* place_order sends a LimitBuy or a MarketSell; LimitSell and MarketBuy are
\* todo!() before anything is sent
PlacedOrderTypes ==
    {OrderType_LimitBuy(p, v) : p \in InputPrices, v \in QuoteVols}
      \cup {OrderType_MarketSell(v) : v \in TargetVols}

\* how many orders have been sent on order_tx
Requests == Len(processed) + Len(order_rx)

\* the caller c is between two calls
Between(c) == market.callers[c].pc = "idle" /\ Requests < MaxRequests

\* the caller's unwrap() of a failed send or recv
Unwound(c) == [market EXCEPT !.callers[c].pc = "panicked"]

\* place_order: order_tx.send(order).unwrap(); the send fails once the loop's
\* thread, and order_rx with it, is gone
place_order ==
    /\ \E c \in 1..MaxCallers, typ \in PlacedOrderTypes :
         /\ Between(c)
         /\ IF pc = "dead"
            THEN /\ market' = Unwound(c)
                 /\ UNCHANGED order_rx
            ELSE /\ order_rx' = Append(order_rx, Order(placed_order_id, typ))
                 /\ market' = [market EXCEPT !.callers[c].own = Requests + 1]
    /\ UNCHANGED <<book, fills, last, pre, next_id, overflow_checks, cancelled,
                   match_tx, snapshot_tx, pc, sent, processed, ledger>>

\* update_snapshot, its first statement: order_tx.send(SendSnapshot).unwrap()
update_snapshot_send ==
    /\ \E c \in 1..MaxCallers :
         /\ Between(c)
         /\ IF pc = "dead"
            THEN /\ market' = Unwound(c)
                 /\ UNCHANGED order_rx
            ELSE /\ order_rx' = Append(order_rx, Order(snapshot_request_id,
                                                       OrderType_SendSnapshot))
                 /\ market' = [market EXCEPT !.callers[c].pc = "recv"]
    /\ UNCHANGED <<book, fills, last, pre, next_id, overflow_checks, cancelled,
                   match_tx, snapshot_tx, pc, sent, processed, ledger>>

\* its second: snapshot_rx.recv().unwrap() takes the book at the head of the
\* snapshot channel, whichever request it answers; it waits while the channel
\* is empty and fails when the loop's thread is gone
update_snapshot_recv ==
    /\ \E c \in 1..MaxCallers :
         /\ market.callers[c].pc = "recv"
         /\ IF market.snapshot_rx < Len(snapshot_tx)
            THEN market' = [market EXCEPT
                               !.snapshot_rx = @ + 1,
                               !.callers[c].pc = "store",
                               !.callers[c].snapshot = snapshot_tx[market.snapshot_rx + 1],
                               !.callers[c].seq = market.snapshot_rx + 1]
            ELSE /\ pc = "dead"
                 /\ market' = Unwound(c)
    /\ UNCHANGED <<book, fills, last, pre, next_id, overflow_checks, cancelled,
                   order_rx, match_tx, snapshot_tx, pc, sent, processed, ledger>>

\* its third: *self.latest_snapshot.lock().unwrap() = MarketSnapshot { book: snapshot },
\* and the call returns
update_snapshot_store ==
    /\ \E c \in 1..MaxCallers :
         /\ market.callers[c].pc = "store"
         /\ market' = [market EXCEPT
                          !.latest_snapshot = market.callers[c].snapshot,
                          !.latest_seq = market.callers[c].seq,
                          !.callers[c].pc = "idle",
                          !.callers[c].snapshot = new,
                          !.callers[c].seq = 0]
    /\ UNCHANGED <<book, fills, last, pre, next_id, overflow_checks, cancelled,
                   order_rx, match_tx, snapshot_tx, pc, sent, processed, ledger>>

\* start_market_in_thread keeps no match_rx: it is dropped when the function
\* returns, so the loop's first match_tx.send(fill) fails and its expect()
\* ends the thread
SendFill_disconnected ==
    /\ pc = "send"
    /\ sent < Len(fills)
    /\ pc' = "dead"
    /\ UNCHANGED <<market, book, fills, last, pre, next_id, overflow_checks, cancelled,
                   order_rx, match_tx, snapshot_tx, sent, processed, ledger>>

NextServer ==
    \/ place_order
    \/ update_snapshot_send
    \/ update_snapshot_recv
    \/ update_snapshot_store
    \/ RecvMarketSell
    \/ RecvLimitBuy
    \/ RecvSendSnapshot
    \/ SendFill_disconnected
    \/ ClearBuffer

SpecServer == InitLoop /\ [][NextServer]_vars

\* ================================================================== claims
\* Vocabulary of the claims, computed from the quotes themselves.
LiveVolume(level) == SumVolumes(iter_quotes(level))

RECURSIVE SumLive(_, _)
SumLive(levels, plist) ==
    IF plist = <<>> THEN 0
    ELSE LiveVolume(levels[Head(plist)]) + SumLive(levels, Tail(plist))

\* live volume a buy (sell) can reach in book b at prices up to (down to) bound
AskLiquidity(b, bound) ==
    SumLive(b.levels, Ascending({p \in DOMAIN b.levels : p >= b.best_ask /\ p <= bound}))
BidLiquidity(b, bound) ==
    SumLive(b.levels, Ascending({p \in DOMAIN b.levels : p <= b.best_bid /\ p >= bound}))

RECURSIVE FillsCost(_)
FillsCost(ms) ==
    IF ms = <<>> THEN 0 ELSE Head(ms).price * Head(ms).volume + FillsCost(Tail(ms))

\* cost of the walk in unbounded integers
RECURSIVE WalkCost(_, _, _)
WalkCost(levels, plist, rem_vol) ==
    IF plist = <<>> THEN 0
    ELSE LET vol == Min(rem_vol, levels[Head(plist)].total_volume)
         IN Head(plist) * vol + WalkCost(levels, Tail(plist), rem_vol - vol)

IsBuy == last.op \in {"execute_market_buy", "execute_limit_buy_order"}
IsSell == last.op \in {"execute_market_sell", "execute_limit_sell_order"}
IsMarket == last.op \in {"execute_market_buy", "execute_market_sell"}
IsAdd == last.op \in {"add_bid", "add_ask"}
\* the call returned a value to its caller
Returned == last.res.tag # "Panicked"
Placed == last.res.tag \in {"PlacedNewBest", "PlacedNew", "PlacedExisting"}
\* order ids are issued in arrival order, and a quote is inserted by the
\* command that carries its id
InsertedBefore(a, b) == a < b

\* C1: the matches of a market buy ascend by price, those of a market sell
\* descend by price, and matches at one price name their makers in the order
\* the makers' quotes were inserted.
C1_PriceTimeOrder ==
    IsMarket =>
        \A i, j \in 1..Len(fills) :
            i < j =>
                \/ IsBuy /\ fills[i].price < fills[j].price
                \/ IsSell /\ fills[i].price > fills[j].price
                \/ /\ fills[i].price = fills[j].price
                   /\ InsertedBefore(fills[i].maker_order_id, fills[j].maker_order_id)

C1_Witness ==
    /\ last.op = "execute_market_sell"
    /\ Len(fills) = 2
    /\ fills[1].price > fills[2].price

\* C2 as stated: after any market or limit command the matched volume is
\* min(target_vol, live liquidity of the opposite side within the price bound).
MatchedWhatWasAvailable ==
    /\ IsBuy => SumVolumes(fills) =
                  Min(last.volume, AskLiquidity(pre, IF IsMarket THEN U64_MAX ELSE last.price))
    /\ IsSell => SumVolumes(fills) =
                  Min(last.volume, BidLiquidity(pre, IF IsMarket THEN U64_MIN ELSE last.price))

C2_Original == Returned => MatchedWhatWasAvailable

\* C2 (amended): the same for every command the balance gate did not reject.
C2_MatchedVolume ==
    (Returned /\ last.res.tag # "FailedInsufficientFunds") => MatchedWhatWasAvailable

C2_Witness ==
    /\ last.op = "execute_limit_buy_order"
    /\ last.res.tag = "PartiallyFilled"
    /\ SumVolumes(fills) > 0
    /\ SumVolumes(fills) < last.volume
    /\ AskLiquidity(pre, U64_MAX) > SumVolumes(fills)

\* C3: every level's total_volume is the sum of the volumes of its
\* non-tombstone quotes.
C3_TotalVolume ==
    \A p \in DOMAIN book.levels : book.levels[p].total_volume = LiveVolume(book.levels[p])

C3_Witness ==
    /\ last.op = "cancel"
    /\ last.res.tag = "WasCancelled"
    /\ book.levels[last.price].total_volume > 0
    /\ \E i \in 1..Len(book.levels[last.price].quotes) :
          is_tombstone(book.levels[last.price].quotes[i])

\* C4: best_bid < best_ask in every state.
C4_Uncrossed == book.best_bid < book.best_ask

C4_Witness ==
    /\ last.op = "execute_limit_sell_order"
    /\ last.res.tag = "PartiallyFilled"
    /\ book.best_ask = last.price
    /\ book.best_bid > U64_MIN

\* C5 as stated: best_ask is the least price above best_bid with positive
\* live volume, best_bid the greatest such price below best_ask, and the
\* sentinel when there is none.
LiveAbove(b) == {p \in DOMAIN b.levels : LiveVolume(b.levels[p]) > 0 /\ p > b.best_bid}
LiveBelow(b) == {p \in DOMAIN b.levels : LiveVolume(b.levels[p]) > 0 /\ p < b.best_ask}

Lowest(S) == CHOOSE p \in S : \A r \in S : p <= r
Highest(S) == CHOOSE p \in S : \A r \in S : p >= r

C5_Original ==
    Returned =>
        /\ book.best_ask = IF LiveAbove(book) = {} THEN U64_MAX ELSE Lowest(LiveAbove(book))
        /\ book.best_bid = IF LiveBelow(book) = {} THEN U64_MIN ELSE Highest(LiveBelow(book))

\* C5 (amended): best_ask is at most every price above best_bid that has live
\* volume and best_bid at least every such price below best_ask; a best equals
\* the extreme live price whenever its own level has live volume, and a best
\* at its sentinel means that side has no live volume.
C5_BestIsBound ==
    /\ \A p \in LiveAbove(book) : book.best_ask <= p
    /\ \A p \in LiveBelow(book) : book.best_bid >= p
    /\ book.best_ask \in LiveAbove(book) => book.best_ask = Lowest(LiveAbove(book))
    /\ book.best_bid \in LiveBelow(book) => book.best_bid = Highest(LiveBelow(book))
    /\ book.best_ask = U64_MAX => LiveAbove(book) = {}
    /\ book.best_bid = U64_MIN => LiveBelow(book) = {}

C5_Witness ==
    /\ last.op = "cancel"
    /\ last.res.tag = "WasCancelled"
    /\ book.best_ask = last.price
    /\ LiveVolume(book.levels[last.price]) = 0
    /\ LiveAbove(book) # {}

\* C6: a market buy that returns FailedInsufficientFunds leaves the book as
\* it was and appends no match.
C6_FailedNoMutation ==
    (last.op = "execute_market_buy" /\ last.res.tag = "FailedInsufficientFunds") =>
        /\ book = pre
        /\ fills = <<>>

C6_Witness ==
    /\ last.op = "execute_market_buy"
    /\ last.res.tag = "FailedInsufficientFunds"
    /\ AskLiquidity(pre, U64_MAX) > 0
    /\ last.volume > 0

\* C7: a market buy returns FailedInsufficientFunds exactly when the cost of
\* its walk exceeds available_quote_balance, so the matches of an executed
\* order cost at most available_quote_balance.
C7_BalanceGate ==
    (last.op = "execute_market_buy" /\ Returned) =>
        /\ last.res.tag = "FailedInsufficientFunds"
             <=> WalkCost(pre.levels, ask_levels(pre), last.volume) > last.balance
        /\ last.res.tag # "FailedInsufficientFunds" => FillsCost(fills) <= last.balance

\* The gate decides as the claim says whenever no product of the walk leaves
\* the word: C7 fails only through the overflow.
RECURSIVE WalkOverflows(_, _, _)
WalkOverflows(levels, plist, rem_vol) ==
    IF plist = <<>> THEN FALSE
    ELSE LET vol == Min(rem_vol, levels[Head(plist)].total_volume)
         IN \/ mul_overflows(Head(plist), vol)
            \/ WalkOverflows(levels, Tail(plist), rem_vol - vol)

C7_GateWithoutOverflow ==
    (last.op = "execute_market_buy" /\ Returned
       /\ ~WalkOverflows(pre.levels, ask_levels(pre), last.volume)) =>
        /\ last.res.tag = "FailedInsufficientFunds"
             <=> WalkCost(pre.levels, ask_levels(pre), last.volume) > last.balance
        /\ last.res.tag # "FailedInsufficientFunds" => FillsCost(fills) <= last.balance

\* C8: an add_bid at or above best_ask, or an add_ask at or below best_bid,
\* returns CrossedSpread and changes nothing.
C8_CrossedRejected ==
    /\ (last.op = "add_bid" /\ last.price >= pre.best_ask) =>
           (last.res.tag = "CrossedSpread" /\ book = pre)
    /\ (last.op = "add_ask" /\ last.price <= pre.best_bid) =>
           (last.res.tag = "CrossedSpread" /\ book = pre)

C8_Witness ==
    /\ last.op = "add_bid"
    /\ last.price > pre.best_ask
    /\ last.price \in DOMAIN pre.levels

\* C9: a placed add returns PlacedNewBest exactly when that side's best
\* changed; otherwise PlacedNew for a level created by the call and
\* PlacedExisting for a level that already had live volume.
C9_PlacedOutcome ==
    (IsAdd /\ Placed) =>
        LET best_changed == IF last.op = "add_bid" THEN book.best_bid # pre.best_bid
                            ELSE book.best_ask # pre.best_ask
        IN /\ last.res.tag = "PlacedNewBest" <=> best_changed
           /\ (~best_changed /\ last.price \notin DOMAIN pre.levels) =>
                  last.res.tag = "PlacedNew"
           /\ (~best_changed /\ last.price \in DOMAIN pre.levels
                 /\ LiveVolume(pre.levels[last.price]) > 0) =>
                  last.res.tag = "PlacedExisting"

C9_Witness ==
    /\ last.op = "add_ask"
    /\ last.res.tag = "PlacedExisting"
    /\ last.price > pre.best_ask

\* C10: a placed add_bid appends its quote at the tail of the level at its
\* price, adds the quote's volume to that level's total_volume, sets best_bid
\* to max(best_bid, price) and changes nothing else; add_ask likewise with
\* best_ask = min(best_ask, price).
C10_AddFrame ==
    (IsAdd /\ Placed) =>
        LET p == last.price
            q == Quote(last.order_id, last.volume)
            old == IF p \in DOMAIN pre.levels THEN pre.levels[p]
                   ELSE [total_volume |-> 0, quotes |-> <<>>, tombstone_count |-> 0]
        IN /\ DOMAIN book.levels = DOMAIN pre.levels \cup {p}
           /\ book.levels[p].quotes = Append(old.quotes, q)
           /\ book.levels[p].total_volume = old.total_volume + last.volume
           /\ book.levels[p].tombstone_count = old.tombstone_count
           /\ \A r \in DOMAIN pre.levels : r # p => book.levels[r] = pre.levels[r]
           /\ last.op = "add_bid" =>
                 /\ book.best_bid = (IF pre.best_bid > p THEN pre.best_bid ELSE p)
                 /\ book.best_ask = pre.best_ask
           /\ last.op = "add_ask" =>
                 /\ book.best_ask = Min(pre.best_ask, p)
                 /\ book.best_bid = pre.best_bid

C10_Witness ==
    /\ last.op = "add_bid"
    /\ last.res.tag = "PlacedExisting"
    /\ Len(book.levels[last.price].quotes) = 2
    /\ book.best_ask < U64_MAX

\* C11: after execute_market_buy returns Filled{new_best_price = p} the cached
\* best ask is p, and after MarketVolumeExhausted it is u64::MAX; after
\* execute_market_sell returns Filled{p} the cached best bid is p, and after
\* MarketVolumeExhausted it is 0.
C11_BestAfterMarket ==
    /\ (last.op = "execute_market_buy" /\ last.res.tag = "Filled")
          => book.best_ask = last.res.new_best_price
    /\ (last.op = "execute_market_buy" /\ last.res.tag = "MarketVolumeExhausted")
          => book.best_ask = U64_MAX
    /\ (last.op = "execute_market_sell" /\ last.res.tag = "Filled")
          => book.best_bid = last.res.new_best_price
    /\ (last.op = "execute_market_sell" /\ last.res.tag = "MarketVolumeExhausted")
          => book.best_bid = U64_MIN

\* a market sell that consumed every bid of a book whose best bid was set
C11_Witness ==
    /\ last.op = "execute_market_sell"
    /\ last.res.tag = "MarketVolumeExhausted"
    /\ pre.best_bid # U64_MIN
    /\ fills # <<>>
    /\ book.best_bid = U64_MIN

\* C12: for target_vol > 0, execute_market_buy and execute_market_sell return
\* MarketVolumeExhausted{volume_transacted} only with volume_transacted <
\* target_vol, and an order whose target_vol is at most the live liquidity of
\* the opposite side returns Filled.
C12_ExhaustedMeansUnfilled ==
    (IsMarket /\ last.volume > 0
       /\ last.res.tag \in {"Filled", "MarketVolumeExhausted"})
      => LET liquidity == IF IsBuy THEN AskLiquidity(pre, U64_MAX)
                                   ELSE BidLiquidity(pre, U64_MIN)
         IN /\ last.res.tag = "MarketVolumeExhausted"
                  => last.res.volume_transacted < last.volume
            /\ last.volume <= liquidity => last.res.tag = "Filled"

\* C12 (amended): exhaustion reports that the walk ran out of levels: the
\* volume transacted is the whole live liquidity of the opposite side, which
\* the target reached or exceeded (so volume_transacted <= target_vol, with
\* equality when the order takes exactly everything); an order whose target
\* is smaller than that liquidity returns Filled.
C12_ExhaustedMeansSideEmptied ==
    (IsMarket /\ last.volume > 0
       /\ last.res.tag \in {"Filled", "MarketVolumeExhausted"})
      => LET liquidity == IF IsBuy THEN AskLiquidity(pre, U64_MAX)
                                   ELSE BidLiquidity(pre, U64_MIN)
         IN /\ last.res.tag = "MarketVolumeExhausted"
                  => /\ last.res.volume_transacted = liquidity
                     /\ liquidity <= last.volume
            /\ last.volume < liquidity => last.res.tag = "Filled"

\* a market buy that takes exactly everything on offer, over two levels
C12_Witness ==
    /\ last.op = "execute_market_buy"
    /\ last.res.tag = "MarketVolumeExhausted"
    /\ last.volume > 0
    /\ last.res.volume_transacted = last.volume
    /\ Len(fills) = 2
    /\ fills[1].price # fills[2].price

\* the maker quote of match m rested, live, at the level of m's price when
\* the call started
RestedAt(b, m) ==
    /\ m.price \in DOMAIN b.levels
    /\ \E k \in 1..Len(b.levels[m.price].quotes) :
          /\ b.levels[m.price].quotes[k].order_id = m.maker_order_id
          /\ b.levels[m.price].quotes[k].order_id # U64_MAX

\* C13: every match of execute_limit_buy_order(id, limit, vol) has price <=
\* limit, every match of execute_limit_sell_order has price >= limit, and
\* each match's price is the price of the level where the maker quote rests.
C13_LimitBound ==
    /\ last.op = "execute_limit_buy_order"
          => \A i \in 1..Len(fills) :
                fills[i].price <= last.price /\ RestedAt(pre, fills[i])
    /\ last.op = "execute_limit_sell_order"
          => \A i \in 1..Len(fills) :
                fills[i].price >= last.price /\ RestedAt(pre, fills[i])

\* a limit buy that matched below its limit and stopped at a dearer ask
C13_Witness ==
    /\ last.op = "execute_limit_buy_order"
    /\ last.res.tag = "PartiallyFilled"
    /\ fills # <<>>
    /\ fills[1].price < last.price
    /\ last.res.new_best_price > last.price
    /\ AskLiquidity(book, U64_MAX) > 0

IsLimit == last.op \in {"execute_limit_buy_order", "execute_limit_sell_order"}
Unfinished == last.res.tag \in {"PartiallyFilled", "MarketVolumeExhausted"}
\* the quotes the matching left at the limit price: a level the walk went
\* through was cleared, any other is as it was
LeftAtLimit ==
    IF last.price \notin DOMAIN pre.levels THEN <<>>
    ELSE IF IsBuy /\ last.price >= pre.best_ask THEN <<>>
    ELSE IF IsSell /\ last.price <= pre.best_bid THEN <<>>
    ELSE pre.levels[last.price].quotes

\* C14: when a limit order's matching ends in PartiallyFilled or
\* MarketVolumeExhausted, a quote with the order's id and volume target_vol -
\* volume_transacted is appended on the order's own side at limit_price, the
\* opposite best is the kernel's new_best_price (or the sentinel), and the
\* own side's best becomes limit_price when that improves it.
C14_ResidualRests ==
    (IsLimit /\ Unfinished)
      => /\ last.price \in DOMAIN book.levels
         /\ book.levels[last.price].quotes =
               Append(LeftAtLimit,
                      Quote(last.order_id, last.volume - last.res.volume_transacted))
         /\ IsBuy => /\ book.best_ask = (IF last.res.tag = "PartiallyFilled"
                                          THEN last.res.new_best_price ELSE U64_MAX)
                      /\ book.best_bid = (IF last.price > pre.best_bid
                                          THEN last.price ELSE pre.best_bid)
         /\ IsSell => /\ book.best_bid = (IF last.res.tag = "PartiallyFilled"
                                           THEN last.res.new_best_price ELSE U64_MIN)
                       /\ book.best_ask = (IF last.price < pre.best_ask
                                           THEN last.price ELSE pre.best_ask)

\* a limit sell that matched part of its volume against a bid, stopped at a
\* lower bid and rests the remainder as the new best ask
C14_Witness ==
    /\ last.op = "execute_limit_sell_order"
    /\ last.res.tag = "PartiallyFilled"
    /\ fills # <<>>
    /\ last.res.volume_transacted > 0
    /\ last.res.volume_transacted < last.volume
    /\ book.best_ask = last.price
    /\ pre.best_ask # last.price

\* some entry of book b carries order id id
Rests(b, id) ==
    \E p \in DOMAIN b.levels :
        \E k \in 1..Len(b.levels[p].quotes) : b.levels[p].quotes[k].order_id = id

\* C15: a limit order creates a resting quote only if it did not fully
\* match: when its matches' volumes sum to target_vol (> 0), no quote with the
\* order's id rests on the book afterwards and the order's own-side best
\* price is unchanged.
C15_NoResidualWhenMatched ==
    (IsLimit /\ Returned /\ last.volume > 0 /\ SumVolumes(fills) = last.volume)
      => /\ ~Rests(book, last.order_id)
         /\ IsBuy => book.best_bid = pre.best_bid
         /\ IsSell => book.best_ask = pre.best_ask

\* C16: the residual insertion of execute_limit_buy_order and
\* execute_limit_sell_order never returns CrossedSpread, so assert_placed
\* never panics, for every reachable book and every limit price and volume.
C16_ResidualNeverCrosses == IsLimit => last.res.tag # "Panicked"

\* the same for limit prices other than the own side's unusable one
\* (u64::MAX for a buy, 0 for a sell)
C16_CrossesOnlyAtReservedPrice ==
    (IsLimit /\ last.res.tag = "Panicked")
      => \/ IsBuy /\ last.price = U64_MAX
         \/ IsSell /\ last.price = U64_MIN

\* the positions of the live quotes of order id at price in book b
LiveAt(b, price, id) ==
    IF price \notin DOMAIN b.levels THEN {}
    ELSE {k \in 1..Len(b.levels[price].quotes) :
            /\ b.levels[price].quotes[k].order_id = id
            /\ b.levels[price].quotes[k].order_id # U64_MAX}

\* C17: cancel(price, order_id) returns WasCancelled exactly when a live
\* quote with that order id rests at that price; then the first such quote
\* becomes a tombstone and its volume leaves total_volume; otherwise it
\* returns NotFound and the book is unchanged.
C17_CancelExact ==
    last.op = "cancel"
      => LET hits == LiveAt(pre, last.price, last.order_id)
         IN /\ last.res.tag = "WasCancelled" <=> hits # {}
            /\ hits = {} => last.res.tag = "NotFound" /\ book = pre
            /\ hits # {}
                 => LET k == CHOOSE x \in hits : \A y \in hits : x <= y
                        was == pre.levels[last.price]
                        now == book.levels[last.price]
                    IN /\ now.quotes = [was.quotes EXCEPT ![k] = tombstone]
                       /\ now.total_volume = was.total_volume - was.quotes[k].volume
                       /\ \A p \in DOMAIN pre.levels \ {last.price} :
                             book.levels[p] = pre.levels[p]

\* a cancel that removed the second of two quotes resting at a price
C17_Witness ==
    /\ last.op = "cancel"
    /\ last.res.tag = "WasCancelled"
    /\ Len(pre.levels[last.price].quotes) = 2
    /\ pre.levels[last.price].quotes[2].order_id = last.order_id
    /\ book.levels[last.price].quotes[1].order_id # U64_MAX
    /\ book.levels[last.price].total_volume > 0

\* C18: cancellation is idempotent: once cancel(price, order_id) has returned
\* WasCancelled, a further cancel of the same price and order id returns
\* NotFound and leaves the book unchanged.
C18_CancelIdempotent ==
    [][(last'.op = "cancel" /\ <<last'.price, last'.order_id>> \in cancelled)
         => (last'.res.tag = "NotFound" /\ book' = book)]_vars

\* a cancel repeated on a level that still holds the first cancel's tombstone
C18_Witness ==
    /\ last.op = "cancel"
    /\ <<last.price, last.order_id>> \in cancelled
    /\ last.res.tag = "NotFound"
    /\ book = pre
    /\ \E k \in 1..Len(book.levels[last.price].quotes) :
          book.levels[last.price].quotes[k] = tombstone

\* total_volume of the level at price in book b, 0 where there is no level
TotalAt(b, price) ==
    IF price \in DOMAIN b.levels THEN b.levels[price].total_volume ELSE 0

\* C19: adding a quote with add_bid or add_ask and immediately cancelling it
\* returns the level's total_volume to its value before the add.
C19_AddThenCancel ==
    [][(IsAdd /\ Placed /\ last'.op = "cancel"
          /\ last'.price = last.price /\ last'.order_id = last.order_id)
         => (/\ last'.res.tag = "WasCancelled"
             /\ TotalAt(book', last.price) = TotalAt(pre, last.price))]_vars

\* the newest quote, last in the queue of a level that holds an older live
\* quote, has been cancelled and the level's total is the older quote's again
C19_Witness ==
    /\ last.op = "cancel"
    /\ last.res.tag = "WasCancelled"
    /\ last.order_id = next_id - 1
    /\ Len(pre.levels[last.price].quotes) = 2
    /\ pre.levels[last.price].quotes[2].order_id = last.order_id
    /\ book.levels[last.price].quotes[1].order_id # U64_MAX
    /\ book.levels[last.price].total_volume
          = book.levels[last.price].quotes[1].volume
    /\ book.levels[last.price].total_volume > 0

\* the entries at price in book b that are neither tombstones nor cancelled
Uncancelled(b, price) ==
    SelectSeq(b.levels[price].quotes,
              LAMBDA q : q.order_id # U64_MAX /\ <<price, q.order_id>> \notin cancelled)

RECURSIVE SumUncancelled(_, _)
SumUncancelled(b, plist) ==
    IF plist = <<>> THEN 0
    ELSE SumVolumes(Uncancelled(b, Head(plist))) + SumUncancelled(b, Tail(plist))

\* the prices a market order on the last call's side could match at
Matchable(b) ==
    {p \in DOMAIN b.levels :
        /\ Uncancelled(b, p) # <<>>
        /\ IF IsBuy THEN p >= b.best_ask ELSE p <= b.best_bid}

\* C20: once cancel has returned WasCancelled, no match of a later command
\* names that order id as maker, its volume is not counted by ask_volume(),
\* and a following market order matches the next live quote in price-time
\* priority instead.
C20_CancelledNeverMatches ==
    /\ \A i \in 1..Len(fills) :
          <<fills[i].price, fills[i].maker_order_id>> \notin cancelled
    /\ ask_volume(book) =
          SumUncancelled(book, Ascending({p \in DOMAIN book.levels : p >= book.best_ask}))
    /\ (IsMarket /\ fills # <<>>)
          => LET p == IF IsBuy THEN Lowest(Matchable(pre)) ELSE Highest(Matchable(pre))
             IN /\ Matchable(pre) # {}
                /\ fills[1].price = p
                /\ fills[1].maker_order_id = Head(Uncancelled(pre, p)).order_id

\* a market buy that found the first ask of the best level cancelled and
\* matched the ask queued behind it
C20_Witness ==
    /\ last.op = "execute_market_buy"
    /\ fills # <<>>
    /\ Len(pre.levels[fills[1].price].quotes) = 2
    /\ pre.levels[fills[1].price].quotes[1] = tombstone
    /\ \E c \in cancelled : c[1] = fills[1].price
    /\ fills[1].maker_order_id = pre.levels[fills[1].price].quotes[2].order_id
    /\ fills[1].volume = ask_volume(pre)

\* the prices of the levels on the side the last call matched against, at or
\* beyond that side's cached best when the call started
OppositeLevels ==
    {p \in DOMAIN pre.levels : IF IsBuy THEN p >= pre.best_ask ELSE p <= pre.best_bid}
\* those of them that hold a live quote
OppositeLive ==
    {p \in OppositeLevels :
        \E k \in 1..Len(pre.levels[p].quotes) : pre.levels[p].quotes[k].order_id # U64_MAX}

\* C21: a market order with target volume 0 emits no matches; against a
\* non-empty opposite side it returns Filled (a buy with any balance), and
\* against an empty opposite side MarketVolumeExhausted{0}.
C21_Original ==
    (IsMarket /\ last.volume = 0)
      => /\ fills = <<>>
         /\ OppositeLive # {} => last.res.tag = "Filled"
         /\ OppositeLive = {}
              => last.res = [tag |-> "MarketVolumeExhausted", volume_transacted |-> 0]

\* C21 (amended): a market order with target volume 0 emits no matches; when
\* the opposite side has a level at or beyond its cached best, live or not,
\* it returns Filled with that first level's price (a buy with any balance);
\* when it has no such level it returns MarketVolumeExhausted{0}.
C21_ZeroTarget ==
    (IsMarket /\ last.volume = 0)
      => /\ fills = <<>>
         /\ OppositeLevels # {}
              => last.res = [tag |-> "Filled",
                             new_best_price |-> IF IsBuy THEN Lowest(OppositeLevels)
                                                ELSE Highest(OppositeLevels)]
         /\ OppositeLevels = {}
              => last.res = [tag |-> "MarketVolumeExhausted", volume_transacted |-> 0]

\* a zero-volume market buy answered Filled by a level whose only quote had
\* been cancelled
C21_Witness ==
    /\ last.op = "execute_market_buy"
    /\ last.volume = 0
    /\ last.res.tag = "Filled"
    /\ OppositeLive = {}
    /\ fills = <<>>

\* the volume the maker of match m had when the call started
MakerVolume(m) ==
    LET qs == pre.levels[m.price].quotes
        k == CHOOSE x \in 1..Len(qs) : qs[x].order_id = m.maker_order_id
    IN qs[k].volume
\* the taker's volume still open after the i-th match of the call
TakerRemaining(i) == last.volume - SumVolumes(SubSeq(fills, 1, i))

\* C22: within one command's matches, a match is BothFilled only if the
\* maker is fully consumed and the taker's remaining volume reaches zero with
\* that very match; a fully consumed maker that leaves the taker with volume
\* is MakerFilled, a partially consumed maker is TakerFilled; so only the
\* last match of a command can be BothFilled or TakerFilled.
C22_MatchTags ==
    \A i \in 1..Len(fills) :
        LET consumed == fills[i].volume = MakerVolume(fills[i])
        IN /\ fills[i].typ = "BothFilled" => (consumed /\ TakerRemaining(i) = 0)
           /\ (consumed /\ TakerRemaining(i) > 0) => fills[i].typ = "MakerFilled"
           /\ ~consumed => fills[i].typ = "TakerFilled"
           /\ i < Len(fills) => fills[i].typ = "MakerFilled"

HasTombstone(level) ==
    \E k \in 1..Len(level.quotes) : level.quotes[k].order_id = U64_MAX
\* the tombstones the last call counted at price p: one for a cancel that
\* succeeded there, one for each maker a fill closed there with volume left
\* on the taker
CountedAt(p) ==
    IF last.op = "cancel"
    THEN IF last.price = p /\ last.res.tag = "WasCancelled" THEN 1 ELSE 0
    ELSE Cardinality({i \in 1..Len(fills) :
                        fills[i].price = p /\ fills[i].typ = "MakerFilled"})

\* C23: once a level's tombstone_count reaches the threshold through
\* cancellations or fills, the level is compacted: its quotes hold only live
\* entries and tombstone_count is 0; tombstone_count is below the threshold
\* after every completed operation.
C23_CompactedAtThreshold ==
    /\ \A p \in DOMAIN book.levels :
          book.levels[p].tombstone_count < TOMBSTONE_GC_LIMIT
    /\ \A p \in DOMAIN pre.levels :
          pre.levels[p].tombstone_count + CountedAt(p) >= TOMBSTONE_GC_LIMIT
            => /\ book.levels[p].tombstone_count = 0
               /\ ~HasTombstone(book.levels[p])

\* a market buy closed the first ask of the worn level, took part of the
\* second, and the tombstone it counted brought the compaction
C23_Witness ==
    /\ last.op = "execute_market_buy"
    /\ Len(fills) = 2
    /\ fills[1].typ = "MakerFilled"
    /\ fills[2].typ = "TakerFilled"
    /\ pre.levels[fills[1].price].tombstone_count = TOMBSTONE_GC_LIMIT - 1
    /\ book.levels[fills[1].price].tombstone_count = 0
    /\ Len(book.levels[fills[1].price].quotes) = 1

\* C28: in every reachable state each level's tombstone_count equals the
\* number of tombstone entries physically present in its quotes.
C28_TombstoneCount ==
    \A p \in DOMAIN book.levels :
        book.levels[p].tombstone_count =
          Cardinality({k \in 1..Len(book.levels[p].quotes) :
                         book.levels[p].quotes[k].order_id = U64_MAX})

\* book b with every level compacted
CompactAll(b) == [b EXCEPT !.levels = [p \in DOMAIN b.levels |-> compact(b.levels[p])]]
\* what a level shows of its quotes: the live ones, in order, and the total
LiveOf(level) ==
    [total_volume |-> level.total_volume,
     quotes |-> SelectSeq(level.quotes, LAMBDA q : q.order_id # U64_MAX)]
LiveView(b) ==
    [best_ask |-> b.best_ask, best_bid |-> b.best_bid,
     levels |-> [p \in DOMAIN b.levels |-> LiveOf(b.levels[p])]]

\* the call c made on book b
Replay(b, c) ==
    CASE c.op = "add_bid" ->
           LET r == add_bid(b, c.price, Quote(c.order_id, c.volume))
           IN [book |-> r.book, res |-> [tag |-> r.outcome], fills |-> <<>>]
      [] c.op = "add_ask" ->
           LET r == add_ask(b, c.price, Quote(c.order_id, c.volume))
           IN [book |-> r.book, res |-> [tag |-> r.outcome], fills |-> <<>>]
      [] c.op = "cancel" ->
           LET r == cancel(b, c.price, c.order_id)
           IN [book |-> r.book, res |-> [tag |-> r.outcome], fills |-> <<>>]
      [] c.op = "execute_market_buy" ->
           LET r == execute_market_buy(b, c.order_id, c.volume, c.balance, <<>>,
                                       overflow_checks)
           IN [book |-> r.book, res |-> r.res, fills |-> r.fills]
      [] c.op = "execute_market_sell" ->
           LET r == execute_market_sell(b, c.order_id, c.volume, <<>>)
           IN [book |-> r.book, res |-> r.res, fills |-> r.fills]
      [] c.op = "execute_limit_buy_order" ->
           LET r == execute_limit_buy_order(b, c.order_id, c.price, c.volume, <<>>)
           IN [book |-> r.book, res |-> r.res, fills |-> r.fills]
      [] c.op = "execute_limit_sell_order" ->
           LET r == execute_limit_sell_order(b, c.order_id, c.price, c.volume, <<>>)
           IN [book |-> r.book, res |-> r.res, fills |-> r.fills]

\* C29: compaction changes only the physical storage of a level: the
\* sequence of live quotes and total_volume are the same before and after
\* it, so every call made on the compacted book returns the same outcome and
\* matches, and leaves the same live quotes, totals and best prices, as the
\* call made on the book as it is.
C29_CompactionInvisible ==
    last.op # "new"
      => /\ \A p \in DOMAIN pre.levels :
               LiveOf(compact(pre.levels[p])) = LiveOf(pre.levels[p])
         /\ LET r == Replay(CompactAll(pre), last)
            IN /\ r.res = last.res
               /\ r.fills = fills
               /\ LiveView(r.book) = LiveView(book)

\* a cancel compacted a level that held two live quotes and the tombstones
\* of the worn level; the two quotes are there in their order
C29_Witness ==
    /\ last.op = "cancel"
    /\ last.res.tag = "WasCancelled"
    /\ pre.levels[last.price].tombstone_count = TOMBSTONE_GC_LIMIT - 1
    /\ Len(pre.levels[last.price].quotes) = TOMBSTONE_GC_LIMIT + 2
    /\ Len(book.levels[last.price].quotes) = 2
    /\ book.levels[last.price].quotes
          = SelectSeq(pre.levels[last.price].quotes,
                      LAMBDA q : q.order_id \notin {U64_MAX, last.order_id})

\* C30: cancel(price, order_id) never changes best_bid or best_ask, whether
\* it returns WasCancelled or NotFound, even when it removes the last live
\* quote of the best level.
C30_CancelKeepsBest ==
    last.op = "cancel"
      => /\ book.best_bid = pre.best_bid
         /\ book.best_ask = pre.best_ask

\* a cancel that removed the only live quote of the best bid level
C30_Witness ==
    /\ last.op = "cancel"
    /\ last.res.tag = "WasCancelled"
    /\ last.price = pre.best_bid
    /\ book.levels[last.price].total_volume = 0
    /\ ~\E k \in 1..Len(book.levels[last.price].quotes) :
           book.levels[last.price].quotes[k].order_id # U64_MAX
    /\ book.best_bid = last.price

\* the call the event loop makes for order o
OrderCall(o) ==
    CASE o.typ.kind = "MarketBuy" ->
           Call("execute_market_buy", o.id, U64_MAX, o.typ.target_base_qty,
                o.typ.available_quote_balance, [tag |-> "None"])
      [] o.typ.kind = "MarketSell" ->
           Call("execute_market_sell", o.id, U64_MIN, o.typ.base_qty, 0, [tag |-> "None"])
      [] o.typ.kind = "LimitBuy" ->
           Call("execute_limit_buy_order", o.id, o.typ.price, o.typ.volume, 0,
                [tag |-> "None"])
      [] o.typ.kind = "LimitSell" ->
           Call("execute_limit_sell_order", o.id, o.typ.price, o.typ.volume, 0,
                [tag |-> "None"])
      [] o.typ.kind = "Cancel" ->
           Call("cancel", o.typ.order_id, o.typ.price, 0, 0, [tag |-> "None"])

\* the book and the matches that the orders cmds, applied one after the
\* other to book b, each with a buffer of its own, produce
RECURSIVE RunAll(_, _, _)
RunAll(b, ms, cmds) ==
    IF cmds = <<>> THEN [book |-> b, matches |-> ms]
    ELSE IF Head(cmds).typ.kind \in {"SendSnapshot", "MarketBuyQ", "MarketSellQ"}
    THEN RunAll(b, ms, Tail(cmds))
    ELSE LET r == Replay(b, OrderCall(Head(cmds)))
         IN RunAll(r.book, ms \o r.fills, Tail(cmds))

\* C24: the Match records on the match channel are the concatenation, in the
\* arrival order of the commands, of the match list each command produces,
\* each match sent once; all matches of a command are sent before the next
\* command is received.
C24_MatchStream ==
    LET produced == RunAll(new, <<>>, processed).matches
    IN /\ match_tx \o SubSeq(fills, sent + 1, Len(fills)) = produced
       /\ pc = "recv" => (match_tx = produced /\ fills = <<>>)

\* two commands have each had their one match sent, in their order, and the
\* loop is at recv again
C24_Witness ==
    /\ pc = "recv"
    /\ Len(match_tx) = 2
    /\ match_tx[1].taker_order_id < match_tx[2].taker_order_id
    /\ Len(processed) = 3

\* the positions of the SendSnapshot orders among the orders received
SnapshotPositions ==
    {i \in 1..Len(processed) : processed[i].typ.kind = "SendSnapshot"}

\* C25: the event loop emits one book per SendSnapshot command, in the order
\* those commands are processed, and the i-th book is the book obtained by
\* applying exactly the commands that precede the i-th SendSnapshot on the
\* inbound queue, whatever is processed later.
C25_Snapshots ==
    /\ Len(snapshot_tx) = Cardinality(SnapshotPositions)
    /\ \A i \in SnapshotPositions :
          snapshot_tx[Cardinality({j \in SnapshotPositions : j <= i})]
            = RunAll(new, <<>>, SubSeq(processed, 1, i - 1)).book

\* a snapshot taken between two commands that each changed the book
C25_Witness ==
    /\ Len(snapshot_tx) = 1
    /\ Len(processed) = 3
    /\ processed[2].typ.kind = "SendSnapshot"
    /\ snapshot_tx[1] # new
    /\ snapshot_tx[1] # book

\* C26: processing SendSnapshot sends no Match on the match channel and
\* leaves the live book unchanged.
C26_SnapshotFrame ==
    [][last'.op = "send_snapshot" => (match_tx' = match_tx /\ book' = book)]_vars

\* a SendSnapshot processed to the end, after a command whose match went out
C26_Witness ==
    /\ last.op = "send_snapshot"
    /\ pc = "recv"
    /\ Len(snapshot_tx) = 1
    /\ snapshot_tx[1] = book
    /\ match_tx # <<>>
    /\ DOMAIN book.levels # {}

\* C27: a Cancel for which no live quote exists is a data condition, not an
\* error: the book is unchanged, nothing is emitted, and the loop goes on to
\* receive and process the following commands.
C27_CancelNotFoundGoesOn ==
    (last.op = "cancel" /\ last.res.tag = "NotFound" /\ processed # <<>>)
      => /\ book = pre
         /\ fills = <<>>
         /\ pc # "dead"

\* the live entries of book b, as <<price, position>>
LiveEntries(b) ==
    {e \in UNION {{<<p, k>> : k \in 1..Len(b.levels[p].quotes)} : p \in DOMAIN b.levels} :
        b.levels[e[1]].quotes[e[2]].order_id # U64_MAX}
EntryAt(b, e) == b.levels[e[1]].quotes[e[2]]
\* the live entries of order id x, and the volume resting under that id
EntriesOf(b, x) == {e \in LiveEntries(b) : EntryAt(b, e).order_id = x}
LiveVolOf(b, x) ==
    IF EntriesOf(b, x) = {} THEN 0 ELSE EntryAt(b, CHOOSE e \in EntriesOf(b, x) : TRUE).volume

SideOf(b, e) == ledger[EntryAt(b, e).order_id].side

\* C32: every live quote inserted as a bid (by add_bid or as a limit-buy
\* residual) rests at a price <= best_bid and every live quote inserted as an
\* ask at a price >= best_ask; so no level with positive live volume lies
\* strictly between best_bid and best_ask, no level holds live bids and live
\* asks together, and a buy matches only quotes placed as asks, a sell only
\* quotes placed as bids.
C32_SidesApart ==
    /\ \A e \in LiveEntries(book) :
          /\ SideOf(book, e) \in {"bid", "ask"}
          /\ SideOf(book, e) = "bid" => e[1] <= book.best_bid
          /\ SideOf(book, e) = "ask" => e[1] >= book.best_ask
    /\ \A p \in DOMAIN book.levels :
          LiveVolume(book.levels[p]) > 0 => (p <= book.best_bid \/ p >= book.best_ask)
    /\ \A e, f \in LiveEntries(book) : e[1] = f[1] => SideOf(book, e) = SideOf(book, f)
    /\ \A i \in 1..Len(fills) :
          /\ IsBuy => ledger[fills[i].maker_order_id].side = "ask"
          /\ IsSell => ledger[fills[i].maker_order_id].side = "bid"

\* a market sell matched the bid that a limit buy left at the very price
\* where the ask it had taken used to rest
C32_Witness ==
    /\ last.op = "execute_market_sell"
    /\ fills # <<>>
    /\ DOMAIN pre.levels = {fills[1].price}
    /\ ledger[fills[1].maker_order_id].side = "bid"
    /\ \E x \in DOMAIN ledger : ledger[x].side = "ask" /\ ledger[x].closed

\* the prices of book b whose level holds a live quote
LivePrices(b) == {p \in DOMAIN b.levels : \E e \in LiveEntries(b) : e[1] = p}
\* A second book with the live quotes of b at their prices in their order and
\* nothing else: no tombstone, no level without a live quote, and each best at
\* the first live level of its side.
LiveOnly(b) ==
    LET asks == {p \in LivePrices(b) : p >= b.best_ask}
        bids == {p \in LivePrices(b) : p <= b.best_bid}
    IN [best_ask |-> IF asks = {} THEN U64_MAX ELSE Lowest(asks),
        best_bid |-> IF bids = {} THEN U64_MIN ELSE Highest(bids),
        levels |-> [p \in LivePrices(b) |-> compact(b.levels[p])]]

\* C33 as stated: a market order returns the same TxnOutcome variant and the
\* same match list on two books that have the same live quotes at the same
\* prices in the same order and differ only in leftover empty levels and
\* tombstones.
C33_Original ==
    (IsMarket /\ Returned)
      => LET r == Replay(LiveOnly(pre), last)
         IN r.fills = fills /\ r.res.tag = last.res.tag

\* C33 (amended): on two such books a market order returns the same match
\* list, and the same TxnOutcome variant except in one case: when the order's
\* remaining volume is zero as the live quotes in its path end, the book
\* that keeps an empty level further along returns Filled with that level's
\* price where the book without it returns MarketVolumeExhausted with
\* volume_transacted = target_vol.
C33_LiveQuotesDecide ==
    (IsMarket /\ Returned)
      => LET r == Replay(LiveOnly(pre), last)
         IN /\ r.fills = fills
            /\ \/ r.res.tag = last.res.tag
               \/ /\ last.res.tag = "Filled"
                  /\ last.res.new_best_price \in DOMAIN pre.levels \ LivePrices(pre)
                  /\ r.res = MarketVolumeExhausted(last.volume)
                  /\ SumVolumes(fills) = last.volume

\* a market sell took the whole of the only live bid and was answered Filled
\* at a lower level whose quote had been cancelled
C33_Witness ==
    /\ last.op = "execute_market_sell"
    /\ last.res.tag = "Filled"
    /\ fills # <<>>
    /\ last.res.new_best_price < fills[1].price
    /\ last.res.new_best_price \notin LivePrices(pre)
    /\ Replay(LiveOnly(pre), last).res.tag = "MarketVolumeExhausted"

\* C34: under fair scheduling every command of the alphabet that was placed
\* on the inbound queue is eventually received and run to completion, and the
\* loop is then waiting to receive again: once the n-th command has been
\* sent, a state follows in which the loop has received n commands and
\* stands at recv.
C34_EveryCommandCompletes ==
    \A n \in 1..MaxOrders : (next_id > n) ~> (Len(processed) >= n /\ pc = "recv")

\* C35: for commands that respect the preconditions (order volumes > 0,
\* unique non-sentinel ids), every Match emitted by a market or limit command
\* has volume > 0.
C35_PositiveMatches ==
    ((IsMarket \/ IsLimit) /\ last.volume > 0)
      => \A i \in 1..Len(fills) : fills[i].volume > 0

\* A match of volume 0 is always the whole of a quote that rested with
\* volume 0: the residual of a limit order that had matched in full.
C35_ZeroOnlyFromZeroQuote ==
    \A i \in 1..Len(fills) :
        fills[i].volume = 0
          => /\ MakerVolume(fills[i]) = 0
             /\ fills[i].typ \in {"MakerFilled", "BothFilled"}

\* C36: for every resting order, over any sequence of commands, the volumes
\* of all matches naming it as maker, plus its remaining live volume, plus
\* the volume its cancellation removed, add up to the volume it was inserted
\* with; it is never matched for more than that volume, and never matched
\* after a MakerFilled or BothFilled match has consumed it.
C36_MakerVolumeConserved ==
    \A x \in DOMAIN ledger :
        ledger[x].side # "none"
          => /\ Cardinality(EntriesOf(book, x)) <= 1
             /\ ledger[x].matched + LiveVolOf(book, x) + ledger[x].removed
                  = ledger[x].inserted
             /\ ledger[x].matched <= ledger[x].inserted
             /\ ~ledger[x].late

\* an order inserted with volume 2 lost 1 to a taker and then the other 1 to
\* its cancellation
C36_Witness ==
    /\ last.op = "cancel"
    /\ last.res.tag = "WasCancelled"
    /\ ledger[last.order_id].inserted = 2
    /\ ledger[last.order_id].matched = 1
    /\ ledger[last.order_id].removed = 1
    /\ LiveVolOf(book, last.order_id) = 0

\* C37: execute_market_buy leaves best_bid and every level priced below the
\* best_ask of before the call unchanged; execute_market_sell leaves best_ask
\* and every level priced above the best_bid of before the call unchanged.
C37_MarketFrame ==
    /\ last.op = "execute_market_buy"
         => /\ book.best_bid = pre.best_bid
            /\ DOMAIN book.levels = DOMAIN pre.levels
            /\ \A p \in DOMAIN pre.levels :
                  p < pre.best_ask => book.levels[p] = pre.levels[p]
    /\ last.op = "execute_market_sell"
         => /\ book.best_ask = pre.best_ask
            /\ DOMAIN book.levels = DOMAIN pre.levels
            /\ \A p \in DOMAIN pre.levels :
                  p > pre.best_bid => book.levels[p] = pre.levels[p]

\* a market buy emptied the ask side of a book that also held a live bid
C37_Witness ==
    /\ last.op = "execute_market_buy"
    /\ last.res.tag = "MarketVolumeExhausted"
    /\ fills # <<>>
    /\ pre.best_bid > U64_MIN
    /\ LiveVolume(book.levels[pre.best_bid]) > 0
    /\ book.best_bid = pre.best_bid

\* The values the market-buy dry run assigns to rem_bal and rem_vol, one
\* pair for each level it walks past, computed as validate_funds computes.
RECURSIVE DryRunRemainders(_, _, _, _, _, _)
DryRunRemainders(levels, price_levels, i, rem_bal, rem_vol, checks) ==
    IF i > Len(price_levels) THEN <<>>
    ELSE LET price == price_levels[i]
             total_volume == levels[price].total_volume
             vol == Min(rem_vol, total_volume)
         IN IF checks /\ mul_overflows(price, vol) THEN <<>>
            ELSE IF wrapping_mul(price, vol) > rem_bal THEN <<>>
            ELSE IF rem_vol < total_volume THEN <<>>
            ELSE LET bal == rem_bal - wrapping_mul(price, total_volume)
                     left == rem_vol - total_volume
                 IN <<[rem_bal |-> bal, rem_vol |-> left]>>
                      \o DryRunRemainders(levels, price_levels, i + 1, bal, left, checks)

\* the dry run of the last call, when that was a market buy
LastDryRun ==
    IF last.op = "execute_market_buy"
    THEN DryRunRemainders(pre.levels, ask_levels(pre), 1, last.balance, last.volume,
                          overflow_checks)
    ELSE <<>>

\* C38: no Volume or Balance subtraction underflows: the dry run's rem_bal
\* and rem_vol, the kernel's remaining_txn_vol after each match, every
\* level's total_volume, every live quote's volume and the residual
\* target_vol - volume_transacted are never below 0.
C38_NoUnderflow ==
    /\ \A k \in 1..Len(LastDryRun) :
          LastDryRun[k].rem_bal >= 0 /\ LastDryRun[k].rem_vol >= 0
    /\ (IsMarket \/ IsLimit) => \A i \in 0..Len(fills) : TakerRemaining(i) >= 0
    /\ \A p \in DOMAIN book.levels : book.levels[p].total_volume >= 0
    /\ \A e \in LiveEntries(book) : EntryAt(book, e).volume >= 0
    /\ last.res.tag \in {"PartiallyFilled", "MarketVolumeExhausted"}
         => /\ last.res.volume_transacted >= 0
            /\ last.volume - last.res.volume_transacted >= 0

\* a market buy whose balance was exactly the cost of the two levels it
\* took: the dry run ended with rem_bal = 0 and rem_vol = 0
C38_Witness ==
    /\ last.op = "execute_market_buy"
    /\ Len(LastDryRun) = 2
    /\ LastDryRun[2].rem_bal = 0
    /\ LastDryRun[2].rem_vol = 0
    /\ Len(fills) = 2
    /\ last.res.tag = "MarketVolumeExhausted"

\* C39: in the market-buy dry run the product
\* price * min(rem_vol, level.total_volume) never leaves the word, so no
\* call stops on the multiplication and the gate rejects exactly when the
\* cost computed with unbounded integers exceeds available_quote_balance.
C39_ProductFitsWord ==
    last.op = "execute_market_buy" =>
       /\ ~WalkOverflows(pre.levels, ask_levels(pre), last.volume)
       /\ last.res.tag # "Panicked"
       /\ last.res.tag = "FailedInsufficientFunds"
             <=> WalkCost(pre.levels, ask_levels(pre), last.volume) > last.balance

\* every order sent on order_tx so far, in the order the loop takes them
Requested == processed \o order_rx

\* the loop's book once it has taken the first k of them
RECURSIVE BookAfter(_)
BookAfter(k) ==
    IF k = 0 THEN new
    ELSE LET b == BookAfter(k - 1)
             order == Requested[k]
         IN CASE order.typ.kind = "LimitBuy" ->
                   execute_limit_buy_order(b, order.id, order.typ.price,
                                           order.typ.volume, <<>>).book
              [] order.typ.kind = "LimitSell" ->
                   execute_limit_sell_order(b, order.id, order.typ.price,
                                            order.typ.volume, <<>>).book
              [] order.typ.kind = "MarketSell" ->
                   execute_market_sell(b, order.id, order.typ.base_qty, <<>>).book
              [] order.typ.kind = "MarketBuy" ->
                   execute_market_buy(b, order.id, order.typ.target_base_qty,
                                      order.typ.available_quote_balance, <<>>,
                                      overflow_checks).book
              [] order.typ.kind = "Cancel" ->
                   cancel(b, order.typ.price, order.typ.order_id).book
              [] OTHER -> b

\* the place among them of the SendSnapshot that the j-th book of the snapshot
\* channel answers; the book of a new MarketState answers none
SnapshotPlace(j) ==
    IF j = 0 THEN 0
    ELSE CHOOSE k \in 1..Len(processed) :
            /\ processed[k].typ.kind = "SendSnapshot"
            /\ Cardinality({i \in 1..k : processed[i].typ.kind = "SendSnapshot"}) = j

\* snapshot is what the book is, or will be, once the loop has taken the
\* first n orders or more
NoOlderThan(snapshot, n) == \E k \in n..Len(Requested) : BookAfter(k) = snapshot

\* C40: with several concurrent callers of update_snapshot, when a call
\* returns latest_snapshot holds a book that reflects every order that caller
\* had sent on order_tx before the call, and latest_snapshot never goes back
\* to a book older than the one it held.
C40_SnapshotCurrent ==
    [][\A c \in 1..MaxCallers :
          (market.callers[c].pc = "store" /\ market'.callers[c].pc = "idle") =>
             /\ NoOlderThan(market'.latest_snapshot, market.callers[c].own)
             /\ NoOlderThan(market'.latest_snapshot, SnapshotPlace(market.latest_seq))]_vars

====
